---- MODULE Spec2Model ----
(***************************************************************************)
(* Verification model of gaussian-vrm: the preprocessing driver            *)
(* (apps/preprocess/preprocess.js: preprocess, preprocess2, cleanSplats /  *)
(* calculateHeights, assignSplatsToBones, assignSplatsToPoints) and the    *)
(* GVRM container (gvrm-format/gvrm.js: save, load, sortSplatsByBones,     *)
(* updateExtraData; gvrm-format/ply.js: splitPLY).                         *)
(*                                                                         *)
(* The specifications share the variables; each starts one part of the     *)
(* program and leaves the others idle:                                     *)
(*   SpecPre    - control flow of preprocess(): stages, catch, retry,      *)
(*                preprocess2 / promise2, saveError.                       *)
(*   SpecCal    - the calibration session of cleanSplats(): the recursive  *)
(*                calculateHeights with its IEEE-754 double radius.        *)
(*   SpecBind   - binding of splats to bones and vertices followed by      *)
(*                GVRM.save / GVRM.load round trips.                       *)
(*   SpecStages - preprocess2() loop by loop, with its yields.             *)
(*   SpecDeform - the deformer applied to one bound splat.                 *)
(*   SpecClean  - the foreground / background partition of cleanSplats.    *)
(*   SpecShoes  - the grid of detectShoes.                                 *)
(*   SpecFloor  - the floor search of calculateHeights and the centroids.  *)
(*   SpecPly    - PLYParser.parsePLY on one parser instance.               *)
(*   SpecLife   - load(), remove() and update() on one GVRM object.        *)
(*   SpecCli    - main() of the command-line tool.                         *)
(***************************************************************************)
EXTENDS Integers, Sequences, FiniteSets, TLC

VARIABLES
  \* ---- preprocess() ----
  pc,             \* position in preprocess(): the next block to run, or how the promise settled
  stage,          \* the stage argument / local
  nocheck,        \* the nocheck argument (poseDetector is null iff nocheck)
  hints,          \* the local variable hints of the running invocation
  hints0,         \* the hints value of the top-level call
  invocations,    \* number of preprocess() invocations so far (1 + recursive calls)
  circle,         \* local circle is set
  circleHead,     \* local circleHead is set
  failures,       \* history: the failures thrown, in order, as [inv, kind]
  retriedAfter,   \* history: per recursive call, the failure kind before it and the hints passed
  saveErrorCalls, \* number of saveError() calls
  saveCalls,      \* number of GVRM.save() calls
  promise2,       \* state of promise2 = preprocess2()
  gs,             \* the cloud object held by the local gs / gvrm.gs (0: none)
  clouds,         \* number of cloud objects created by initGS so far
  bindRuns,       \* history: per cloud object, the runs of the binding functions on it
  boundClouds,    \* the cloud objects whose three arrays hold an entry for every splat
  checksRun,      \* history: the checks (ground, A-pose, final) entered so far
  detectorUsed,   \* history: a block has evaluated a member of poseDetector
  \* ---- cleanSplats() / calculateHeights() ----
  cpc,            \* position in the calibration session
  phase,          \* phase argument of the running calculateHeights call (1..3)
  distXZ,         \* the radius of the current run, an IEEE-754 double
  startXZ,        \* the radius the running top-level calculateHeights call was started with
  reruns,         \* recursive re-runs made by the running top-level call
  measured,       \* history: the radius of the last measurement run, or none
  kneeHint,       \* hints.kneeHeight is given to cleanSplats
  accepted,       \* history: the measurement of the run that returned last, or <<>>
  session,        \* history: the radius of every run of the session, in order
  \* ---- binding and container ----
  bpc,            \* position in preprocess2 / the save-load cycle
  centers,        \* gs.centers0, one coordinate per splat
  capsules,       \* pmc.capsules.children: triangle coordinates and index presence
  capsuleBoneIndex,
  vertexCount,    \* position.count of the skinned mesh
  fast,           \* the fast argument
  skinShift,      \* displacement applied by applyBoneTransform in the measurement pose
  boneVertexIndices,
  splatBoneIndices,
  splatVertexIndices,
  splatRelativePoses,
  splatCount,     \* gs.splatCount of the current gs object
  gsRecords,      \* the point-cloud records of the current gs object, in its order
  plyFile,        \* the records of the point-cloud file at gsPath, in file order
  archive,        \* the last archive written by GVRM.save
  savedArrays,    \* history: the arrays handed to the last GVRM.save
  cycles,         \* save/load round trips made
  distanceCalls,  \* history: closestPointToPoint calls made by assignSplatsToBones
  sceneSplatIndices, \* returned by the last sortSplatsByBones
  boneSceneMap,   \* returned by the last sortSplatsByBones
  reloaded,       \* the last archive has been loaded a second time
  \* ---- preprocess2() step by step ----
  p2pc,           \* the stage preprocess2 is in
  loopIndex,      \* the loop variable i of the running loop
  suspended,      \* preprocess2 waits at `await new Promise(setTimeout)` of a loop
  p2Splats,       \* gs.splatCount
  p2Vertices,     \* position.count of the skinned mesh
  p2Capsules,     \* capsules.children.length
  nBones,         \* gs.splatBoneIndices.length
  nClassified,    \* mesh vertices pushed to a pool of boneVertexIndices
  nVertexIdx,     \* gs.splatVertexIndices.length
  nPoses,         \* gs.splatRelativePoses.length / 3
  saveStarted,    \* gvrm.save has been called
  observed,       \* history: what the last other task of the event loop saw
  \* ---- one bound splat under the deformer ----
  dpc,            \* unbound, bound, posed, rendered
  restVertex,     \* rest position of the mesh vertex the splat is bound to
  skinMatrix0,    \* skin matrix of that vertex at bind time (boneTexture0)
  skinMatrix,     \* its current skin matrix
  meshMatrixWorld,
  gsRotation0,    \* mat3(gsMatrix0)
  center0,        \* the splat centre at bind time, in mesh-local space
  Vrk,            \* the splat's covariance
  skeletonOnly,   \* the binding ran on the skeleton-only mesh
  relativePos,    \* the splat's entry of splatRelativePoses
  rendered,       \* skinnedRelativePos, splatCenter and rotatedVrk of the last frame
  clpc,           \* position in the partition of cleanSplats
  cloud,          \* plyData.vertices: x and height (-y) of each splat
  centroidX,      \* centroid.x after phase 2
  cleanRadius,    \* distXZ returned by phase 2
  heights2,       \* heights returned by phase 2
  heights3,       \* heights returned by phase 3
  keepCells,      \* grid cells detectShoes keeps
  filteredVertices6, \* splat indices inside the column
  filteredVertices7, \* splat indices outside the column
  filteredVertices3, \* foreground splat indices
  filteredVertices4, \* shoe outliers
  filteredVertices5,\* background splat indices
  shpc,           \* position in the grid marking of detectShoes
  cellKind,       \* the splats of each grid cell: how many and how high
  keep0,          \* history: the keep marking before the demotion pass
  keep,           \* frequency.keep of each grid cell
  fpc,            \* position in one calculateHeights call and the centroid after it
  fphase,         \* phase argument of the call (1 or 3)
  columnBins,     \* points per height bin (cm) inside the search column
  outsideBins,    \* points per height bin outside the search column, |y| < distY
  outsideWithin,  \* the points outside the column lie within distXZ (thresh 0.5)
  knee,           \* hints.kneeHeight in units of 0.5 cm, if given
  floorY,         \* floorY found by the window search, in cm
  divisors,       \* history: the counts the centroids were divided by
  plypc,          \* position of the caller of one PLYParser / PLYLoader instance
  fileProperties, \* the property lines of the file header, in order: [type, name]
  fileVertexCount, \* the count of the element vertex line
  fileBody,       \* the bytes of the file after end_header
  properties,     \* this.properties of the parser instance
  parsed,         \* history: what each parsePLY call on this instance returned or threw
  parsers,        \* parser instances constructed so far
  lpc,            \* position of the page that owns one GVRM object
  character,      \* this.character: 0 for null or undefined, k for the character made by the k-th finished GVRM.load
  gvrmGs,         \* this.gs of the GVRM object, numbered like character
  isReady,        \* this.isReady
  loading,        \* load() calls waiting at await GVRM.load
  removing,       \* remove() calls waiting at an await of GVRM.remove, by position
  left,           \* characters whose leave() has run (currentVrm undefined)
  loaded,         \* GVRM.load calls finished
  calls,          \* load() and remove() calls made
  frames,         \* update() calls made
  updateThrew,    \* an update() call threw a TypeError
  cliPc,          \* position in main() of the command-line tool
  outputGvrm,     \* path.resolve(args[1]): [dir, base, ext]
  cliOptions,     \* the options parsed from the command line
  cliStage,       \* the stage argument main() passes to preprocess
  fileName,       \* the fileName argument main() passes to preprocess
  written,        \* history: the paths handed to fs.writeFileSync, in order
  saveRuns        \* GVRM.save executions of this run
cloudVars == <<gs, clouds, bindRuns, boundClouds>>
checkVars == <<checksRun, detectorUsed>>
preVars  == <<pc, stage, nocheck, hints, hints0, invocations, circle, circleHead,
              failures, retriedAfter, saveErrorCalls, saveCalls, promise2, cloudVars, checkVars>>
calVars  == <<cpc, phase, distXZ, startXZ, reruns, measured, kneeHint, accepted, session>>
bindVars == <<bpc, centers, capsules, capsuleBoneIndex, vertexCount, fast, skinShift,
              boneVertexIndices, splatBoneIndices, splatVertexIndices,
              splatRelativePoses, splatCount, gsRecords, plyFile, archive,
              savedArrays, cycles, distanceCalls, sceneSplatIndices, boneSceneMap,
              reloaded>>
groupVars == <<sceneSplatIndices, boneSceneMap, reloaded>>
stageVars == <<p2pc, loopIndex, suspended, p2Splats, p2Vertices, p2Capsules, nBones,
               nClassified, nVertexIdx, nPoses, saveStarted, observed>>
deformVars == <<dpc, restVertex, skinMatrix0, skinMatrix, meshMatrixWorld, gsRotation0,
                center0, Vrk, skeletonOnly, relativePos, rendered>>
mainVars == <<preVars, calVars, bindVars, stageVars, deformVars>>
cleanVars == <<clpc, cloud, centroidX, cleanRadius, heights2, heights3, keepCells,
               filteredVertices6, filteredVertices7, filteredVertices3,
               filteredVertices4, filteredVertices5>>
shoeVars == <<shpc, cellKind, keep0, keep>>
floorVars == <<fpc, fphase, columnBins, outsideBins, outsideWithin, knee, floorY, divisors>>
plyVars == <<plypc, fileProperties, fileVertexCount, fileBody, properties, parsed, parsers>>
lifeVars == <<lpc, character, gvrmGs, isReady, loading, removing, left, loaded, calls, frames, updateThrew>>
cliVars == <<cliPc, outputGvrm, cliOptions, cliStage, fileName, written, saveRuns>>
auxVars == <<cleanVars, shoeVars, floorVars, plyVars, lifeVars, cliVars>>
CleanUnchanged == UNCHANGED <<mainVars, shoeVars, floorVars, plyVars, lifeVars, cliVars>>
ShoesUnchanged == UNCHANGED <<mainVars, cleanVars, floorVars, plyVars, lifeVars, cliVars>>
FloorUnchanged == UNCHANGED <<mainVars, cleanVars, shoeVars, plyVars, lifeVars, cliVars>>
PlyUnchanged == UNCHANGED <<mainVars, cleanVars, shoeVars, floorVars, lifeVars, cliVars>>
LifeUnchanged == UNCHANGED <<mainVars, cleanVars, shoeVars, floorVars, plyVars, cliVars>>
CliUnchanged == UNCHANGED <<mainVars, cleanVars, shoeVars, floorVars, plyVars, lifeVars>>
vars == <<mainVars, auxVars>>

-----------------------------------------------------------------------------
(* Bounds of the model *)
MaxInvocations == 4    \* cap on recursive preprocess() calls explored
MaxReruns      == 40   \* cap on recursive calculateHeights() calls explored
MaxSplats      == 3    \* splats in the cloud
MaxCapsules    == 2    \* capsules built from the skeleton
MaxCoord       == 3    \* coordinates of splats and capsule triangles range over 1..MaxCoord
MaxVertices    == 4    \* mesh vertices; 3 is the skeleton-only (CLI) mesh
MaxCycles      == 2    \* GVRM.load calls explored
MaxP2Splats    == 201  \* splats of the cloud bound step by step
MaxP2Vertices  == 101  \* vertices of the mesh classified step by step
MaxOffset      == 2    \* largest coordinate of the deformer's vertex, centre and translations
MaxCloud       == 2    \* splats of the cloud cleanSplats partitions
MaxGridX       == 2    \* largest column index of the grid of detectShoes
MaxBin         == 2    \* highest height bin (cm) that holds points of the cloud
MaxProps       == 2    \* property lines in a file header
MaxPlyVertices == 2    \* vertices in a file
MaxParses      == 2    \* parsePLY calls on one parser instance
MaxParsers     == 2    \* parser instances constructed
MaxCalls       == 3    \* load() and remove() calls on one GVRM object
MaxFrames      == 2    \* update() calls on one GVRM object
MaxNames       == 2    \* output file names the command-line tool is run with

-----------------------------------------------------------------------------
(* Generic helpers *)
Last(s) == s[Len(s)]

RECURSIVE SeqSum(_)
SeqSum(s) == IF s = <<>> THEN 0 ELSE s[1] + SeqSum(Tail(s))

-----------------------------------------------------------------------------
(***************************************************************************)
(* preprocess(): src/apps/preprocess/preprocess.js 780-1396                *)
(***************************************************************************)

\* The hints argument: null, or an object with optional kneeHeight,
\* boneOperations and retry fields (retry = 0 stands for an absent field).
NullHints     == [isNull |-> TRUE,  kneeHeight |-> FALSE, boneOperations |-> FALSE, retry |-> 0]
BoneOpsHints  == [isNull |-> FALSE, kneeHeight |-> FALSE, boneOperations |-> TRUE,  retry |-> 0]
KneeHints     == [isNull |-> FALSE, kneeHeight |-> TRUE,  boneOperations |-> FALSE, retry |-> 0]

\* The hints values the callers pass: null, or {boneOperations} (CLI main).
InitialHints  == {NullHints, BoneOpsHints}

\* Values of the stage argument: null, the four allowed strings, one other.
StageInputs   == {"null", "0", "1", "2", "3", "4"}
ValidStages   == {"0", "1", "2", "3"}

\* JavaScript's string-to-number coercion in `stage < 1` and `stage < 2`.
StageNum(s)   == CASE s = "0" -> 0 [] s = "1" -> 1 [] s = "2" -> 2 [] s = "3" -> 3 [] OTHER -> 4

\* Failure kinds that stem from the calibration or from the ground check.
CalibrationKinds == {"calibration", "emptyRegion"}
GroundKinds      == {"kneeBelow", "groundOther"}

Terminal == {"returned", "error", "rejected"}

\* The ground check's reaction to knees below the floor (1012-1017).
GroundCheckHints(h) == IF ~h.isNull THEN NullHints ELSE KneeHints

\* catch, 1361-1365: hints.retry = 1 when absent, else hints.retry += 1.
BumpRetry(h) == IF h.isNull THEN h ELSE [h EXCEPT !.retry = h.retry + 1]

\* catch, 1367: if (hints && hints.retry <= 1).
RetryAllowed_TwoRetries(h) == ~h.isNull /\ h.retry <= 2
RetryAllowed(h) == ~h.isNull /\ h.retry <= 1

\* catch, 1372-1379: inside `if (circle)` the code dereferences circleHead.
CleanupThrows(c, ch) == c /\ ~ch

\* A throw anywhere in the try block of preprocess(): the catch block,
\* run with the value h the local hints has at the throw.
Catch(kind, h) ==
  LET h1 == BumpRetry(h) IN
  /\ failures' = Append(failures, [inv |-> invocations, kind |-> kind])
  /\ hints' = h1
  /\ IF RetryAllowed(h1)
       THEN IF CleanupThrows(circle, circleHead)
              THEN /\ pc' = "rejected"
                   /\ UNCHANGED <<invocations, circle, circleHead, retriedAfter,
                                  saveErrorCalls, cloudVars>>
              ELSE /\ invocations < MaxInvocations
                   /\ invocations' = invocations + 1
                   /\ retriedAfter' = Append(retriedAfter, [kind |-> kind, hints |-> h1])
                   /\ circle' = FALSE
                   /\ circleHead' = FALSE
                   /\ pc' = "validate"
                   /\ gs' = 0
                   /\ UNCHANGED <<saveErrorCalls, clouds, bindRuns, boundClouds>>
       ELSE /\ saveErrorCalls' = saveErrorCalls + 1
            /\ pc' = "error"
            /\ UNCHANGED <<invocations, circle, circleHead, retriedAfter, cloudVars>>
  /\ UNCHANGED <<stage, nocheck, hints0, saveCalls, promise2>>

\* A block of the try body that completes: go to the next block.
Proceed(next) ==
  /\ pc' = next
  /\ UNCHANGED <<hints, invocations, failures, retriedAfter, saveErrorCalls,
                 stage, nocheck, hints0, saveCalls, promise2>>

\* GVRM.initGS (gvrm.js 129-175) builds a new cloud object on every call.
NewCloud_Reused(n) == IF n = 0 THEN 1 ELSE n
NewCloud(n) == n + 1

\* The cloud objects after one more initGS call.
CreateCloud(bound) ==
  /\ clouds' = NewCloud(clouds)
  /\ gs' = NewCloud(clouds)
  /\ bindRuns' = [o \in 1..NewCloud(clouds) |-> IF o \in DOMAIN bindRuns THEN bindRuns[o] ELSE 0]
  /\ boundClouds' = IF bound THEN boundClouds \cup {NewCloud(clouds)} ELSE boundClouds

\* 821-828: default and validation of stage.
ValidateStage ==
  /\ pc = "validate"
  /\ LET st == IF stage = "null" THEN "0" ELSE stage IN
       IF st \notin ValidStages
         THEN Catch("stage", hints)
         ELSE /\ pc' = IF StageNum(st) < 1 THEN "clean" ELSE "loadMain"
              /\ stage' = st
              /\ UNCHANGED <<hints, invocations, failures, retriedAfter, saveErrorCalls,
                             nocheck, hints0, saveCalls, promise2, circle, circleHead,
                             cloudVars>>
  /\ UNCHANGED checkVars
  /\ UNCHANGED <<calVars, bindVars, stageVars, deformVars, auxVars>>

\* 831-869: initGS of the raw cloud, cleanSplats, initGS of the background.
CleanAndShow ==
  /\ pc = "clean"
  /\ \E outcome \in {"ok", "load", "calibration", "emptyRegion"} :
       IF outcome = "ok"
         THEN Proceed("loadMain") /\ UNCHANGED <<circle, circleHead, cloudVars>>
         ELSE Catch(outcome, hints)
  /\ UNCHANGED checkVars
  /\ UNCHANGED <<calVars, bindVars, stageVars, deformVars, auxVars>>

\* 872-889: initGS of the main cloud and initVRM.
LoadMain ==
  /\ pc = "loadMain"
  /\ \E outcome \in {"ok", "load"} :
       IF outcome = "ok"
         THEN Proceed(IF StageNum(stage) < 1 THEN "adjustPos" ELSE "groundCheck")
              /\ CreateCloud(FALSE)
              /\ UNCHANGED <<circle, circleHead>>
         ELSE Catch(outcome, hints)
  /\ UNCHANGED checkVars
  /\ UNCHANGED <<calVars, bindVars, stageVars, deformVars, auxVars>>

\* 892-919: rescale the VRM, place the clouds, create circle (913).
AdjustPosScale ==
  /\ pc = "adjustPos"
  /\ \E outcome \in {"ok", "load"} :
       IF outcome = "ok"
         THEN Proceed("adjustAngle") /\ circle' = TRUE /\ UNCHANGED <<circleHead, cloudVars>>
         ELSE Catch(outcome, hints)
  /\ UNCHANGED checkVars
  /\ UNCHANGED <<calVars, bindVars, stageVars, deformVars, auxVars>>

\* 937-991: findBestAngleInRange twice (uses poseDetector), create circleHead (984).
AdjustAngle ==
  /\ pc = "adjustAngle"
  /\ IF nocheck
       THEN Catch("nullDetector", hints)
       ELSE \E outcome \in {"ok", "noDirection"} :
              IF outcome = "ok"
                THEN Proceed("groundCheck") /\ circleHead' = TRUE /\ UNCHANGED <<circle, cloudVars>>
                ELSE Catch(outcome, hints)
  /\ detectorUsed' = TRUE
  /\ UNCHANGED checksRun
  /\ UNCHANGED <<calVars, bindVars, stageVars, deformVars, auxVars>>

\* 996-1025: the ground check; 1008 dereferences circle.
GroundCheck ==
  /\ pc = "groundCheck"
  /\ IF nocheck
       THEN Proceed("boneOps") /\ UNCHANGED <<circle, circleHead, cloudVars>>
       ELSE IF ~circle
         THEN Catch("groundOther", hints)
         ELSE \E outcome \in {"ok", "kneeBelow", "groundOther"} :
                CASE outcome = "ok" ->
                       Proceed("boneOps") /\ UNCHANGED <<circle, circleHead, cloudVars>>
                  [] outcome = "kneeBelow" ->
                       Catch("kneeBelow", GroundCheckHints(hints))
                  [] OTHER ->
                       Catch("groundOther", hints)
  /\ IF nocheck
       THEN UNCHANGED checkVars
       ELSE checksRun' = checksRun \cup {"ground"} /\ detectorUsed' = TRUE
  /\ UNCHANGED <<calVars, bindVars, stageVars, deformVars, auxVars>>

\* 1031-1232: tilt of the VRM, then the bone operations with the A-pose
\* check (stage < 2, uses poseDetector) or the default bone operations.
BoneOperations ==
  /\ pc = "boneOps"
  /\ IF StageNum(stage) < 2
       THEN IF nocheck
              THEN \E outcome \in {"fetch", "nullDetector"} :
                     /\ Catch(outcome, hints)
                     /\ detectorUsed' = (detectorUsed \/ outcome = "nullDetector")
                     /\ UNCHANGED checksRun
              ELSE \E outcome \in {"ok", "fetch", "detect", "apose"} :
                     /\ IF outcome = "ok"
                          THEN Proceed("capsules") /\ UNCHANGED <<circle, circleHead, cloudVars>>
                          ELSE Catch(outcome, hints)
                     /\ detectorUsed' = (detectorUsed \/ outcome # "fetch")
                     /\ checksRun' = IF outcome \in {"ok", "apose"}
                                       THEN checksRun \cup {"apose"} ELSE checksRun
       ELSE /\ \E outcome \in {"ok", "fetch"} :
                 IF outcome = "ok"
                   THEN Proceed("capsules") /\ UNCHANGED <<circle, circleHead, cloudVars>>
                   ELSE Catch(outcome, hints)
            /\ UNCHANGED checkVars
  /\ UNCHANGED <<calVars, bindVars, stageVars, deformVars, auxVars>>

\* 1234-1255: getPointsMeshCapsules and, unless nocheck, finalCheck.
CapsulesAndFinalCheck ==
  /\ pc = "capsules"
  /\ \E outcome \in (IF nocheck THEN {"ok"} ELSE {"ok", "finalCheck"}) :
       IF outcome = "ok"
         THEN Proceed("launch") /\ UNCHANGED <<circle, circleHead, cloudVars>>
         ELSE Catch(outcome, hints)
  /\ IF nocheck
       THEN UNCHANGED checkVars
       ELSE checksRun' = checksRun \cup {"final"} /\ detectorUsed' = TRUE
  /\ UNCHANGED <<calVars, bindVars, stageVars, deformVars, auxVars>>

\* 1268-1358: build the GVRM, start preprocess2() and return the result
\* record without awaiting promise2.
LaunchPreprocess2 ==
  /\ pc = "launch"
  /\ pc' = "returned"
  /\ promise2' = "binding"
  /\ UNCHANGED <<stage, nocheck, hints, hints0, invocations, circle, circleHead,
                 failures, retriedAfter, saveErrorCalls, saveCalls, cloudVars>>
  /\ UNCHANGED checkVars
  /\ UNCHANGED <<calVars, bindVars, stageVars, deformVars, auxVars>>

\* preprocess2, 1286-1300: the two binding functions; a throw is rethrown
\* by the catch at 1342-1345 and rejects promise2.
P2Bind ==
  /\ promise2 = "binding"
  /\ \E ok \in BOOLEAN :
       /\ promise2' = IF ok THEN "saving" ELSE "rejected"
       /\ boundClouds' = IF ok THEN boundClouds \cup {gs} ELSE boundClouds
  /\ bindRuns' = [bindRuns EXCEPT ![gs] = @ + 1]
  /\ UNCHANGED <<gs, clouds>>
  /\ UNCHANGED <<pc, stage, nocheck, hints, hints0, invocations, circle, circleHead,
                 failures, retriedAfter, saveErrorCalls, saveCalls>>
  /\ UNCHANGED checkVars
  /\ UNCHANGED <<calVars, bindVars, stageVars, deformVars, auxVars>>

\* preprocess2, 1302-1304: gvrm.save.
P2Save ==
  /\ promise2 = "saving"
  /\ saveCalls' = saveCalls + 1
  /\ \E ok \in BOOLEAN : promise2' = IF ok THEN "reloading" ELSE "rejected"
  /\ UNCHANGED <<pc, stage, nocheck, hints, hints0, invocations, circle, circleHead,
                 failures, retriedAfter, saveErrorCalls, cloudVars>>
  /\ UNCHANGED checkVars
  /\ UNCHANGED <<calVars, bindVars, stageVars, deformVars, auxVars>>

\* preprocess2, 1306-1341: dispose, reload (browser only: gvrm.load builds
\* a new cloud object and gives it the arrays of the archive, gvrm.js
\* 210-228 and 379), remove the circles.
P2Reload ==
  /\ promise2 = "reloading"
  /\ \E ok \in BOOLEAN, isCliMode \in BOOLEAN :
       /\ promise2' = IF ok THEN "resolved" ELSE "rejected"
       /\ IF ok /\ ~isCliMode THEN CreateCloud(TRUE) ELSE UNCHANGED cloudVars
  /\ UNCHANGED <<pc, stage, nocheck, hints, hints0, invocations, circle, circleHead,
                 failures, retriedAfter, saveErrorCalls, saveCalls>>
  /\ UNCHANGED checkVars
  /\ UNCHANGED <<calVars, bindVars, stageVars, deformVars, auxVars>>

PreIdle ==
  /\ pc = "idle" /\ stage = "null" /\ nocheck = FALSE
  /\ hints = NullHints /\ hints0 = NullHints
  /\ invocations = 0 /\ circle = FALSE /\ circleHead = FALSE
  /\ failures = <<>> /\ retriedAfter = <<>>
  /\ saveErrorCalls = 0 /\ saveCalls = 0 /\ promise2 = "none"
  /\ gs = 0 /\ clouds = 0 /\ bindRuns = <<>> /\ boundClouds = {}
  /\ checksRun = {} /\ detectorUsed = FALSE

-----------------------------------------------------------------------------
(***************************************************************************)
(* cleanSplats() and calculateHeights():                                   *)
(* src/apps/preprocess/preprocess.js 283-658                               *)
(***************************************************************************)

\* JavaScript numbers are IEEE-754 doubles.  A non-negative double below 4 is
\* held exactly as the pair <<hi, lo>> with value (hi * 2^28 + lo) * 2^-56.
B28 == 2^28

\* The literals 0.3 (614, 617), 0.1 (423) and 3.0 (422) as doubles:
\* 0x3FD3333333333333, 0x3FB999999999999A and 0x4008000000000000.
D0_3 == <<80530636, 214748364>>
D0_1 == <<26843545, 161061274>>
D3_0 == <<805306368, 0>>

\* Spacing of the doubles (in units of 2^-56) in the binade of hi * 2^-28.
Quantum(hi) ==
  IF hi < 2^25 THEN 1 ELSE IF hi < 2^26 THEN 2 ELSE IF hi < 2^27 THEN 4
  ELSE IF hi < 2^28 THEN 8 ELSE IF hi < 2^29 THEN 16 ELSE 32

\* a + b on doubles: the exact sum rounded to nearest, ties to even.
FAdd(a, b) ==
  LET s    == a[2] + b[2]
      lo   == s % B28
      hi   == a[1] + b[1] + (s \div B28)
      q    == Quantum(hi)
      r    == lo % q
      down == lo - r
      up   == down + q
      pick == IF 2 * r < q THEN down
              ELSE IF 2 * r > q THEN up
              ELSE IF (down \div q) % 2 = 0 THEN down ELSE up
  IN IF pick = B28 THEN <<hi + 1, 0>> ELSE <<hi, pick>>

\* a < b and a <= b on doubles.
FLess(a, b) == a[1] < b[1] \/ (a[1] = b[1] /\ a[2] < b[2])
FLeq(a, b)  == ~FLess(b, a)

\* 422: if (distXZ < 3.0).
CanGrow_NoCap(d) == TRUE
CanGrow(d) == FLess(d, D3_0)

\* 423: distXZ += 0.1.
Grow(d) == FAdd(d, D0_1)

\* 419-421: the validation of one measurement: count is
\* testFilteredVertices.length, hdCm the height difference in centimetres,
\* outer is outerRingVertices.length (outer / count > 0.00025).
ThresholdFails_NoOuterRing(count, hdCm, outer) ==
  \/ count < 10000
  \/ hdCm <= 30
ThresholdFails(count, hdCm, outer) ==
  \/ count < 10000
  \/ hdCm <= 30
  \/ (outer > 10 /\ outer * 4000 > count)

\* Measurements a run can make of the cloud inside its search column.
Counts   == {9999, 10000, 44000}
HeightsCm == {30, 31}
Outers   == {10, 11}

CalThrown == {"thrown6", "thrownEmpty", "thrownNoFloor", "thrown5"}

\* The step of cleanSplats that follows a calculateHeights call of phase p.
AfterHeights(p) == IF p = 1 THEN "feet1" ELSE IF p = 2 THEN "feet2" ELSE "head"

CalUnchanged == UNCHANGED <<preVars, bindVars, stageVars, deformVars, auxVars, kneeHint>>

\* 434: the run returns { heights, distXZ }; its validation measured m.
Accept(m) == accepted' = <<m>>

\* 295-435: one run of calculateHeights (each run starts with an await).
\* 320-330: no vertex with |y| < distY at all throws;
\* 351-380: no window position left by hints.kneeHeight throws;
\* 419-432: failed thresholds enlarge the radius and recurse, or throw.
CalculateHeightsRun ==
  /\ cpc = "heights"
  /\ reruns < MaxReruns
  /\ measured' = Append(measured, distXZ)
  /\ session' = Append(session, distXZ)
  /\ \E column \in {"empty", "noFloor", "measured"} :
       CASE column = "empty" ->
              /\ cpc' = "thrownEmpty"
              /\ UNCHANGED <<phase, distXZ, startXZ, reruns, accepted>>
         [] column = "noFloor" ->
              /\ kneeHint
              /\ cpc' = "thrownNoFloor"
              /\ UNCHANGED <<phase, distXZ, startXZ, reruns, accepted>>
         [] OTHER ->
              \E count \in Counts, hdCm \in HeightsCm, outer \in Outers :
                IF ThresholdFails(count, hdCm, outer)
                  THEN IF CanGrow(distXZ)
                         THEN /\ distXZ' = Grow(distXZ)
                              /\ reruns' = reruns + 1
                              /\ UNCHANGED <<cpc, phase, startXZ, accepted>>
                         ELSE /\ cpc' = "thrown6"
                              /\ UNCHANGED <<phase, distXZ, startXZ, reruns, accepted>>
                  ELSE /\ cpc' = AfterHeights(phase)
                       /\ Accept([phase |-> phase, distXZ |-> distXZ, count |-> count,
                                  hdCm |-> hdCm, outer |-> outer])
                       /\ UNCHANGED <<phase, distXZ, startXZ, reruns>>
  /\ CalUnchanged

\* 437-468 and 471-502: calculateCentroidFeet / calculateCentroidHead; an
\* empty height band throws [ErrorID 5].  Then the next calculateHeights
\* call of cleanSplats starts: phase 2 at 0.3 (617), phase 3 at the radius
\* phase 2 returned (630).
CalculateCentroid ==
  /\ cpc \in {"feet1", "feet2", "feet3", "head"}
  /\ UNCHANGED <<accepted, session>>
  /\ \E found \in BOOLEAN :
       IF ~found
         THEN /\ cpc' = "thrown5"
              /\ UNCHANGED <<phase, distXZ, startXZ, reruns, measured>>
         ELSE CASE cpc = "feet1" ->
                     /\ cpc' = "heights" /\ phase' = 2
                     /\ distXZ' = D0_3 /\ startXZ' = D0_3
                     /\ reruns' = 0 /\ measured' = <<>>
                [] cpc = "feet2" ->
                     /\ cpc' = "feet3"
                     /\ UNCHANGED <<phase, distXZ, startXZ, reruns, measured>>
                [] cpc = "feet3" ->
                     /\ cpc' = "heights" /\ phase' = 3
                     /\ startXZ' = distXZ
                     /\ reruns' = 0 /\ measured' = <<>>
                     /\ UNCHANGED distXZ
                [] OTHER ->
                     /\ cpc' = "done"
                     /\ UNCHANGED <<phase, distXZ, startXZ, reruns, measured>>
  /\ CalUnchanged

CalIdle ==
  /\ cpc = "idle" /\ phase = 0 /\ distXZ = D0_3 /\ startXZ = D0_3
  /\ reruns = 0 /\ measured = <<>> /\ kneeHint = FALSE
  /\ accepted = <<>> /\ session = <<>>

-----------------------------------------------------------------------------
(***************************************************************************)
(* Binding: assignSplatsToBones, assignSplatsToPoints                      *)
(* (src/apps/preprocess/preprocess.js 24-280) and the container            *)
(* (src/gvrm-format/gvrm.js 177-299, 491-544; src/gvrm-format/ply.js       *)
(* 286-313).                                                               *)
(*                                                                         *)
(* Geometry is one-dimensional: a splat centre, a capsule triangle and a   *)
(* mesh vertex each have one integer coordinate and distances are          *)
(* absolute differences; the scene matrices are the identity.  Splat,      *)
(* vertex and capsule indices are the 0-based indices of the code; the    *)
(* JavaScript array element of index i is element i + 1 of a sequence.     *)
(***************************************************************************)

\* JavaScript values that occur as array elements.
Num(n)    == [t |-> "number", v |-> n]
Undefined == [t |-> "undefined", v |-> 0]
Null      == [t |-> "null", v |-> 0]

\* arr[i] in JavaScript: undefined outside the array.
JsGet(arr, i) == IF i + 1 \in DOMAIN arr THEN arr[i + 1] ELSE Undefined

Abs(x) == IF x < 0 THEN -x ELSE x

\* Coordinates of splat centres and capsule triangles.
Coords == 1..MaxCoord

\* A capsule is the list of the coordinates of its triangles, in index
\* order: one triangle, or a triangle at 1 and a second one further on.
CapsuleShapes == {<<a>> : a \in Coords} \cup {<<1, a>> : a \in 2..MaxCoord}

\* The skeleton traversal of getPointsMeshCapsules (utils.js 250-341) meets
\* the capsules in the order of their far end, shorter capsule first.
ShapeRank(shape) == 2 * shape[Len(shape)] + Len(shape)

\* The meshes: skeleton-only (3 vertices) or the full mesh.
VertexCounts == {3, MaxVertices}

\* capsuleBoneIndex as getPointsMeshCapsules builds it (utils.js 300-302):
\* the skeleton index of each capsule's child bone, in traversal order.
SkeletonIndex(ci) == IF ci % 2 = 0 THEN 5 + ci ELSE 2 + ci

\* position.getX(i): the rest coordinate of mesh vertex i; two vertices
\* share each coordinate.
RestPosition(i) == i \div 2

\* skinnedMesh.applyBoneTransform(i, vertex): the vertex in the measurement pose.
PosedPosition(i, shift) == RestPosition(i) + shift

\* All triangles of all capsules as <<ci, coordinate>>, in the order of the
\* nested loops at 67-101 and 165-200.
RECURSIVE TriangleList(_, _)
TriangleList(caps, ci) ==
  IF ci >= Len(caps) THEN <<>>
  ELSE [k \in 1..Len(caps[ci + 1]) |-> <<ci, caps[ci + 1][k]>>] \o TriangleList(caps, ci + 1)

\* 94-99, 193-198: if (distance < minDistance) { minDistance = distance; bestCi = ci; }
Closer_OrEqual(distance, minDefined, minDistance) == ~minDefined \/ distance <= minDistance
Closer(distance, minDefined, minDistance) == ~minDefined \/ distance < minDistance

\* The scan over all triangles from entry k on; best is bestCi (with
\* bestDefined false for `undefined`), minDefined false stands for Infinity.
RECURSIVE ScanTriangles(_, _, _, _, _, _, _)
ScanTriangles(p, tris, k, minDefined, minDistance, bestDefined, best) ==
  IF k > Len(tris) THEN [defined |-> bestDefined, ci |-> best]
  ELSE LET distance == Abs(p - tris[k][2]) IN
       IF Closer(distance, minDefined, minDistance)
         THEN ScanTriangles(p, tris, k + 1, TRUE, distance, TRUE, tris[k][1])
         ELSE ScanTriangles(p, tris, k + 1, minDefined, minDistance, bestDefined, best)

\* 64-101: bestCi = 0, then the scan.
NearestCapsuleOfSplat(p, caps) ==
  ScanTriangles(p, TriangleList(caps, 0), 1, FALSE, 0, TRUE, 0).ci

\* 161-200: bestCi = undefined, then the scan.
NearestCapsuleOfVertex(p, caps) ==
  ScanTriangles(p, TriangleList(caps, 0), 1, FALSE, 0, FALSE, 0)

\* 52-117: the loop over the splats from splat i on; fast inherits bestCi
\* for every splat whose index is not a multiple of 10.
RECURSIVE SplatBones(_, _, _, _, _, _)
SplatBones(i, bestCi, ctr, caps, cbi, fst) ==
  IF i >= Len(ctr) THEN <<>>
  ELSE LET ci == IF fst /\ i % 10 # 0 THEN bestCi
                 ELSE NearestCapsuleOfSplat(ctr[i + 1], caps)
       IN <<Num(cbi[ci + 1])>> \o SplatBones(i + 1, ci, ctr, caps, cbi, fst)

\* 37-40: defaultBoneIndex = 0 pushed once per splat.
DefaultBones_FirstCapsuleBone(n) == [i \in 1..n |-> Num(SkeletonIndex(0))]
DefaultBones(n) == [i \in 1..n |-> Num(0)]

\* 24-121: assignSplatsToBones; with no capsule every splat gets bone 0 (32-50).
AssignedBones(ctr, caps, cbi, fst) ==
  IF Len(caps) = 0 THEN DefaultBones(Len(ctr))
  ELSE SplatBones(0, 0, ctr, caps, cbi, fst)

\* The number of triangle.closestPointToPoint calls (91) of one run: none in
\* the zero-capsule branch (32-50), else one per triangle for every splat
\* that is not skipped by fast (53-60).
DistanceCalls(n, caps, fst) ==
  IF Len(caps) = 0 THEN 0
  ELSE Cardinality({i \in 0..(n - 1) : ~(fst /\ i % 10 # 0)}) * Len(TriangleList(caps, 0))

\* 148-152: one empty pool per value of capsuleBoneIndex.
EmptyPools(cbi) == [b \in {cbi[k] : k \in DOMAIN cbi} |-> <<>>]

\* 156-210: the vertex classification from vertex i on.  A vertex for which
\* bestCi stays undefined makes boneVertexIndices[undefined].push throw (202).
RECURSIVE ClassifyVertices(_, _, _, _, _, _)
ClassifyVertices(i, vc, pools, caps, cbi, shift) ==
  IF i >= vc THEN [thrown |-> FALSE, pools |-> pools]
  ELSE LET near == NearestCapsuleOfVertex(PosedPosition(i, shift), caps) IN
       IF ~near.defined THEN [thrown |-> TRUE, pools |-> pools]
       ELSE LET b == cbi[near.ci + 1] IN
            ClassifyVertices(i + 1, vc, [pools EXCEPT ![b] = Append(@, i)], caps, cbi, shift)

\* 227: boneVertexIndices[boneIndex], the vertex pool searched for a splat.
PoolOf_WholeMesh(pools, bone, vc) == [k \in 1..vc |-> k - 1]
PoolOf(pools, bone, vc) == pools[bone]

\* 223-243: the nearest vertex of the pool from entry vi on, step skip.
RECURSIVE ScanPool(_, _, _, _, _, _, _, _)
ScanPool(p, pool, vi, skip, shift, minDefined, minDistance, bestVi) ==
  IF vi >= Len(pool) THEN bestVi
  ELSE LET distance == Abs(PosedPosition(pool[vi + 1], shift) - p) IN
       IF Closer(distance, minDefined, minDistance)
         THEN ScanPool(p, pool, vi + skip, skip, shift, TRUE, distance, vi)
         ELSE ScanPool(p, pool, vi + skip, skip, shift, minDefined, minDistance, bestVi)

\* 219-244: the vertex bound to splat i: vertexIndices[bestVi], which is
\* undefined when the pool is empty.
BoundVertex(i, ctr, bones, pools, vc, shift, fst) ==
  LET pool == PoolOf(pools, bones[i + 1].v, vc)
      skip == IF fst THEN 3 ELSE 1
  IN JsGet([k \in 1..Len(pool) |-> Num(pool[k])],
           ScanPool(ctr[i + 1], pool, 0, skip, shift, FALSE, 0, 0))

\* 266-275: relativePos = center0 - vertex, where vertex is the bound
\* vertex after applyBoneTransform (268) and center0 the centre c taken
\* into the space of the mesh (270-273).
RelativePos_Unposed(c, v, shift) == c - RestPosition(v)
RelativePos(c, v, shift) == c - PosedPosition(v, shift)

\* 264-277: the relative poses from splat i on.  applyBoneTransform of
\* three.js reads skeleton.bones[skinIndex].matrixWorld: for an undefined
\* vertex index the skin index is undefined and the call throws a TypeError.
RECURSIVE RelativePoses(_, _, _, _, _)
RelativePoses(i, ctr, verts, shift, acc) ==
  IF i >= Len(ctr) THEN [thrown |-> FALSE, poses |-> acc]
  ELSE IF verts[i + 1].t # "number" THEN [thrown |-> TRUE, poses |-> acc]
  ELSE LET offset == RelativePos(ctr[i + 1], verts[i + 1].v, shift) IN
       RelativePoses(i + 1, ctr, verts, shift,
                     acc \o <<Num(offset), Num(0), Num(0)>>)

\* 142: new Array(gs.splatCount * 3).fill(0).
CliRelativePoses_OnePerSplat(n) == [k \in 1..n |-> Num(0)]
CliRelativePoses(n) == [k \in 1..(n * 3) |-> Num(0)]

\* 131: position.count <= 3 is the skeleton-only (CLI) mesh.
IsCliMesh(vc) == vc <= 3

BindUnchanged == UNCHANGED <<preVars, calVars, stageVars, deformVars, auxVars>>

\* 24-121: assignSplatsToBones(gs, pmc.capsules, capsuleBoneIndex, fast).
AssignSplatsToBones ==
  /\ bpc = "unbound"
  /\ splatBoneIndices' = AssignedBones(centers, capsules, capsuleBoneIndex, fast)
  /\ distanceCalls' = DistanceCalls(Len(centers), capsules, fast)
  /\ bpc' = "bonesAssigned"
  /\ UNCHANGED <<centers, capsules, capsuleBoneIndex, vertexCount, fast, skinShift,
                 boneVertexIndices, splatVertexIndices, splatRelativePoses,
                 splatCount, gsRecords, plyFile, archive, savedArrays, cycles, groupVars>>
  /\ BindUnchanged

\* 124-280: assignSplatsToPoints(character, gs, pmc.capsules, capsuleBoneIndex, fast).
AssignSplatsToPoints ==
  /\ bpc = "bonesAssigned"
  /\ IF IsCliMesh(vertexCount)
       THEN /\ splatVertexIndices' = [i \in 1..splatCount |-> Num(0)]
            /\ splatRelativePoses' = CliRelativePoses(splatCount)
            /\ bpc' = "bound"
            /\ UNCHANGED boneVertexIndices
       ELSE LET cls == ClassifyVertices(0, vertexCount, EmptyPools(capsuleBoneIndex),
                                        capsules, capsuleBoneIndex, skinShift)
            IN IF cls.thrown
                 THEN /\ bpc' = "thrown"
                      /\ boneVertexIndices' = cls.pools
                      /\ splatVertexIndices' = <<>>
                      /\ UNCHANGED splatRelativePoses
                 ELSE LET verts == [i \in 1..splatCount |->
                                      BoundVertex(i - 1, centers, splatBoneIndices, cls.pools,
                                                  vertexCount, skinShift, fast)]
                          rel   == RelativePoses(0, centers, verts, skinShift, <<>>)
                      IN /\ boneVertexIndices' = cls.pools
                         /\ splatVertexIndices' = verts
                         /\ splatRelativePoses' = rel.poses
                         /\ bpc' = IF rel.thrown THEN "thrown" ELSE "bound"
  /\ UNCHANGED <<centers, capsules, capsuleBoneIndex, vertexCount, fast, skinShift,
                 splatBoneIndices, splatCount, gsRecords, plyFile, archive,
                 savedArrays, cycles, distanceCalls, groupVars>>
  /\ BindUnchanged

\* JSON.stringify (gvrm.js 299) followed by JSON.parse (183) of one array
\* element: undefined and NaN come back as null, numbers as themselves.
JsonRoundTrip(x) == IF x.t = "number" THEN x ELSE Null
JsonArray(arr) == [k \in DOMAIN arr |-> JsonRoundTrip(arr[k])]

\* gvrm.js 279-299: GVRM.save packs the point-cloud file at gsPath and the
\* three arrays of gvrm.gs (with model.vrm and the scalars) into the archive.
Save ==
  /\ bpc \in {"bound", "loaded"}
  /\ cycles < MaxCycles
  /\ archive' = [ply |-> plyFile,
                 splatVertexIndices |-> JsonArray(splatVertexIndices),
                 splatBoneIndices   |-> JsonArray(splatBoneIndices),
                 splatRelativePoses |-> JsonArray(splatRelativePoses)]
  /\ savedArrays' = [splatVertexIndices |-> splatVertexIndices,
                     splatBoneIndices   |-> splatBoneIndices,
                     splatRelativePoses |-> splatRelativePoses]
  /\ bpc' = "saved"
  /\ UNCHANGED <<centers, capsules, capsuleBoneIndex, vertexCount, fast, skinShift,
                 boneVertexIndices, splatBoneIndices, splatVertexIndices,
                 splatRelativePoses, splatCount, gsRecords, plyFile, cycles,
                 distanceCalls, sceneSplatIndices, boneSceneMap>>
  /\ reloaded' = FALSE
  /\ BindUnchanged

\* gvrm.js 500-505: boneSceneMap[boneIndex], set to sceneCount when the bone
\* is met for the first time; seen lists the bones met so far and hit the
\* positions of this bone in it.
SceneOfBone_AlwaysFirst(hit, seen) == IF hit = {} THEN 0 ELSE (CHOOSE k \in hit : TRUE) - 1
SceneOfBone(hit, seen) == IF hit = {} THEN Len(seen) ELSE (CHOOSE k \in hit : TRUE) - 1

\* gvrm.js 497-506: the scene (group) of each splat: sceneOf[i + 1] is
\* boneSceneMap[splatBoneIndices[i]], scenes numbered in order of first
\* appearance of their bone.
RECURSIVE SceneIds(_, _, _)
SceneIds(bones, i, seen) ==
  IF i >= Len(bones) THEN <<>>
  ELSE LET b    == bones[i + 1]
           hit  == {k \in DOMAIN seen : seen[k] = b}
           seen1 == IF hit = {} THEN Append(seen, b) ELSE seen
       IN <<SceneOfBone(hit, seen)>> \o SceneIds(bones, i + 1, seen1)

\* sceneSplatIndices[sc]: the splat indices pushed to scene sc, ascending.
RECURSIVE SceneMembers(_, _, _)
SceneMembers(ids, sc, i) ==
  IF i >= Len(ids) THEN <<>>
  ELSE (IF ids[i + 1] = sc THEN <<i>> ELSE <<>>) \o SceneMembers(ids, sc, i + 1)

\* gvrm.js 491-511: sortSplatsByBones, the list of scenes.
SceneSplatIndices(bones) ==
  LET ids == SceneIds(bones, 0, <<>>)
      n   == Cardinality({ids[k] : k \in DOMAIN ids})
  IN [sc \in 1..n |-> SceneMembers(ids, sc - 1, 0)]

\* gvrm.js 495-502: boneSceneMap, from each distinct bone to its scene.
BoneSceneMap(bones) ==
  LET ids == SceneIds(bones, 0, <<>>)
  IN [b \in {bones[k] : k \in DOMAIN bones} |->
        ids[CHOOSE k \in DOMAIN bones : bones[k] = b]]

\* The splat indices of all scenes in the order of Object.keys (0, 1, ...).
RECURSIVE Concat(_)
Concat(ss) == IF ss = <<>> THEN <<>> ELSE ss[1] \o Concat(Tail(ss))

\* gvrm.js 518-544: updateExtraData rebuilds the three arrays scene by scene.
Regrouped_Untouched(arr, order) == arr
Regrouped(arr, order) == [k \in DOMAIN order |-> JsGet(arr, order[k])]
RegroupedPoses(arr, order) ==
  [k \in 1..(3 * Len(order)) |->
     JsGet(arr, order[((k - 1) \div 3) + 1] * 3 + ((k - 1) % 3))]

\* ply.js 286-313 and gs.js 147-163: splitPLY writes one file per scene
\* with the records of its splat indices; the viewer loads the files in
\* order, so the new gs holds the records in the order of the scenes.
SplitRecords(ply, order) == [k \in DOMAIN order |-> ply[order[k] + 1]]

\* gvrm.js 177-277: GVRM.load.
Load ==
  /\ \/ bpc = "saved" /\ cycles < MaxCycles /\ cycles' = cycles + 1 /\ reloaded' = FALSE
     \/ bpc = "loaded" /\ ~reloaded /\ cycles' = cycles
          /\ reloaded' = TRUE
  /\ LET scenes == SceneSplatIndices(archive.splatBoneIndices)
         order  == Concat(scenes)
     IN /\ splatVertexIndices' = Regrouped(archive.splatVertexIndices, order)
        /\ splatBoneIndices'   = Regrouped(archive.splatBoneIndices, order)
        /\ splatRelativePoses' = RegroupedPoses(archive.splatRelativePoses, order)
        /\ gsRecords' = SplitRecords(archive.ply, order)
        /\ splatCount' = Len(order)
        /\ sceneSplatIndices' = scenes
        /\ boneSceneMap' = BoneSceneMap(archive.splatBoneIndices)
  /\ bpc' = "loaded"
  /\ UNCHANGED <<centers, capsules, capsuleBoneIndex, vertexCount, fast, skinShift,
                 boneVertexIndices, plyFile, archive, savedArrays, distanceCalls>>
  /\ BindUnchanged

BindIdle ==
  /\ bpc = "idle" /\ centers = <<>> /\ capsules = <<>> /\ capsuleBoneIndex = <<>>
  /\ vertexCount = 0 /\ fast = FALSE /\ skinShift = 0
  /\ boneVertexIndices = <<>> /\ splatBoneIndices = <<>>
  /\ splatVertexIndices = <<>> /\ splatRelativePoses = <<>>
  /\ splatCount = 0 /\ gsRecords = <<>> /\ plyFile = <<>>
  /\ archive = <<>> /\ savedArrays = <<>> /\ cycles = 0 /\ distanceCalls = 0
  /\ sceneSplatIndices = <<>> /\ boneSceneMap = <<>> /\ reloaded = FALSE

-----------------------------------------------------------------------------
(***************************************************************************)
(* preprocess2() step by step: one action per loop iteration, with the     *)
(* cooperative yields of the loops                                         *)
(* (src/apps/preprocess/preprocess.js 52-117, 156-210, 219-277, 1284-1304) *)
(***************************************************************************)

\* 109, 204, 256: `if (i % 100 == 0)` guards the yield of every loop.
YieldEvery == 100

\* What the for statement does after the awaited timer has fired: i++.
ResumeIndex_SkipOne(k) == k + 2
ResumeIndex(k) == k + 1

StagesUnchanged == UNCHANGED <<preVars, calVars, bindVars, deformVars, auxVars>>

\* One iteration of a loop that pushes one entry: the iteration ends at the
\* bottom of the body, or is suspended at its yield.
LoopBody ==
  IF loopIndex % YieldEvery = 0
    THEN suspended' = TRUE /\ UNCHANGED loopIndex
    ELSE loopIndex' = loopIndex + 1 /\ UNCHANGED suspended

\* assignSplatsToBones, 24-121.
BonesStep ==
  /\ p2pc = "bones" /\ ~suspended
  /\ IF p2Capsules = 0
       THEN \* 32-50: the whole branch runs without a yield
            /\ nBones' = p2Splats
            /\ p2pc' = "vertices"
            /\ UNCHANGED <<loopIndex, suspended>>
       ELSE IF loopIndex < p2Splats
         THEN /\ nBones' = nBones + 1
              /\ LoopBody
              /\ UNCHANGED p2pc
         ELSE /\ p2pc' = "vertices"
              /\ loopIndex' = 0
              /\ UNCHANGED <<nBones, suspended>>
  /\ UNCHANGED <<p2Splats, p2Vertices, p2Capsules, nClassified, nVertexIdx, nPoses,
                 saveStarted, observed>>
  /\ StagesUnchanged

\* assignSplatsToPoints, 124-210: the skeleton-only branch, or the
\* classification of the mesh vertices; with no capsule the push at 202
\* throws for the first vertex.
VerticesStep ==
  /\ p2pc = "vertices" /\ ~suspended
  /\ IF IsCliMesh(p2Vertices)
       THEN /\ nVertexIdx' = p2Splats
            /\ nPoses' = p2Splats
            /\ p2pc' = "save"
            /\ UNCHANGED <<loopIndex, suspended, nClassified>>
       ELSE IF loopIndex < p2Vertices
         THEN IF p2Capsules = 0
                THEN /\ p2pc' = "rejected"
                     /\ UNCHANGED <<loopIndex, suspended, nClassified, nVertexIdx, nPoses>>
                ELSE /\ nClassified' = nClassified + 1
                     /\ LoopBody
                     /\ UNCHANGED <<p2pc, nVertexIdx, nPoses>>
         ELSE /\ p2pc' = "points"
              /\ loopIndex' = 0
              /\ UNCHANGED <<suspended, nClassified, nVertexIdx, nPoses>>
  /\ UNCHANGED <<p2Splats, p2Vertices, p2Capsules, nBones, saveStarted, observed>>
  /\ StagesUnchanged

\* assignSplatsToPoints, 219-262: one vertex index per splat.
PointsStep ==
  /\ p2pc = "points" /\ ~suspended
  /\ IF loopIndex < p2Splats
       THEN /\ nVertexIdx' = nVertexIdx + 1
            /\ LoopBody
            /\ UNCHANGED p2pc
       ELSE /\ p2pc' = "offsets"
            /\ loopIndex' = 0
            /\ UNCHANGED <<nVertexIdx, suspended>>
  /\ UNCHANGED <<p2Splats, p2Vertices, p2Capsules, nBones, nClassified, nPoses,
                 saveStarted, observed>>
  /\ StagesUnchanged

\* assignSplatsToPoints, 264-277: the offsets, a loop without a yield; it
\* throws at the first splat whose vertex index is undefined.
OffsetsStep ==
  /\ p2pc = "offsets" /\ ~suspended
  /\ \E done \in 0..p2Splats :
       /\ nPoses' = done
       /\ p2pc' = IF done = p2Splats THEN "save" ELSE "rejected"
  /\ UNCHANGED <<loopIndex, suspended, p2Splats, p2Vertices, p2Capsules, nBones,
                 nClassified, nVertexIdx, saveStarted, observed>>
  /\ StagesUnchanged

\* 1302-1304: gvrm.save.
SaveStep ==
  /\ p2pc = "save" /\ ~suspended
  /\ saveStarted' = TRUE
  /\ p2pc' = "done"
  /\ UNCHANGED <<loopIndex, suspended, p2Splats, p2Vertices, p2Capsules, nBones,
                 nClassified, nVertexIdx, nPoses, observed>>
  /\ StagesUnchanged

\* The timer of a yield fires: the loop goes on with the next index.
Resume ==
  /\ suspended
  /\ suspended' = FALSE
  /\ loopIndex' = ResumeIndex(loopIndex)
  /\ UNCHANGED <<p2pc, p2Splats, p2Vertices, p2Capsules, nBones, nClassified,
                 nVertexIdx, nPoses, saveStarted, observed>>
  /\ StagesUnchanged

\* Another task of the event loop (a rendered frame) runs while preprocess2
\* is suspended; it reads the arrays and writes none of them.
Frame ==
  /\ suspended
  /\ observed # <<p2pc, loopIndex>>
  /\ observed' = <<p2pc, loopIndex>>
  /\ UNCHANGED <<p2pc, loopIndex, suspended, p2Splats, p2Vertices, p2Capsules, nBones,
                 nClassified, nVertexIdx, nPoses, saveStarted>>
  /\ StagesUnchanged

StagesIdle ==
  /\ p2pc = "idle" /\ loopIndex = 0 /\ suspended = FALSE
  /\ p2Splats = 0 /\ p2Vertices = 0 /\ p2Capsules = 0
  /\ nBones = 0 /\ nClassified = 0 /\ nVertexIdx = 0 /\ nPoses = 0
  /\ saveStarted = FALSE /\ observed = <<>>

-----------------------------------------------------------------------------
(***************************************************************************)
(* The deformer: the vertex-shader patch of GVRM.gsCustomizeMaterial       *)
(* (src/gvrm-format/gvrm.js 547-793) applied to one splat bound by         *)
(* assignSplatsToPoints (src/apps/preprocess/preprocess.js 131-146,        *)
(* 264-277).  Vectors are <<x, z>> and matrices <<a, b, c, d>> (rows       *)
(* <<a, b>> and <<c, d>>) in the x-z plane; rotations turn about the y     *)
(* axis by quarter turns, so all entries are integers.                     *)
(***************************************************************************)

VAdd(u, v) == <<u[1] + v[1], u[2] + v[2]>>
VSub(u, v) == <<u[1] - v[1], u[2] - v[2]>>
MatVec(m, v) == <<m[1] * v[1] + m[2] * v[2], m[3] * v[1] + m[4] * v[2]>>
MatMul(m, n) == <<m[1] * n[1] + m[2] * n[3], m[1] * n[2] + m[2] * n[4],
                  m[3] * n[1] + m[4] * n[3], m[3] * n[2] + m[4] * n[4]>>
Transpose(m) == <<m[1], m[3], m[2], m[4]>>

\* GLSL inverse(): adjugate over determinant.
Inverse(m) ==
  LET det == m[1] * m[4] - m[2] * m[3]
  IN <<m[4] \div det, (-m[2]) \div det, (-m[3]) \div det, m[1] \div det>>

Cos4(k) == CASE k % 4 = 0 -> 1 [] k % 4 = 1 -> 0 [] k % 4 = 2 -> -1 [] OTHER -> 0
Sin4(k) == CASE k % 4 = 0 -> 0 [] k % 4 = 1 -> 1 [] k % 4 = 2 -> 0 [] OTHER -> -1

\* The rotation about the y axis by k quarter turns.
RotY(k) == <<Cos4(k), Sin4(k), -Sin4(k), Cos4(k)>>
Rotations == {RotY(k) : k \in 0..3}

\* A rigid transform: x |-> rot * x + t.
Transform(rot, t) == [rot |-> rot, t |-> t]
ApplyPoint(m, v) == VAdd(MatVec(m.rot, v), m.t)
Identity == <<1, 0, 0, 1>>

\* quatFromMat3 (gvrm.js 645-673) on a rotation about y.  The quaternion
\* (0, sin(h*45deg), 0, cos(h*45deg)) is written as its half-angle index h.
\* m[0][2] is column 0, row 2 (entry c), m[2][0] is column 2, row 0 (entry b).
QuatFromMat3(m) ==
  IF m[1] + 1 + m[4] > 0
    THEN IF m[3] - m[2] = 0 THEN 0 ELSE IF m[3] - m[2] > 0 THEN 1 ELSE 7
    ELSE 2

\* 778: tempQuat.y = -tempQuat.y.
NegateY(h) == (8 - h) % 8

\* mat3FromQuat (gvrm.js 690-702); the mat3 constructor takes its
\* arguments column by column.
Mat3FromQuat(h) == <<Cos4(h), -Sin4(h), Sin4(h), Cos4(h)>>

\* preprocess.js 264-277: relativePos = center0 - applyBoneTransform(vertex);
\* 137-142 on the skeleton-only mesh: vertex 0 and a zero offset.
BindOffset_RestVertex(c, v, skin0) == VSub(c, v)
BindOffset(c, v, skin0) == VSub(c, ApplyPoint(skin0, v))

\* 750: skinMatrix * inverse(skinMatrix0) * vec4(relativePos, 0.0).
SkinnedRelativePos(skin, skin0, rel) ==
  MatVec(MatMul(skin.rot, Inverse(skin0.rot)), rel)

\* 744 and 751: transformed is the skinned vertex;
\* splatCenter = meshMatrixWorld * vec4(transformed + skinnedRelativePos, 1.0).
SplatCenter(world, skin, skin0, v, rel) ==
  ApplyPoint(world, VAdd(ApplyPoint(skin, v), SkinnedRelativePos(skin, skin0, rel)))

\* 774-780: the covariance turned by the relative skin rotation.
RotatedVrk(cov, skin, skin0, gsRot0) ==
  LET skinRotationMatrix == MatMul(skin.rot, Inverse(skin0.rot))
      relativeRotation0  == MatMul(MatMul(Transpose(gsRot0), skinRotationMatrix), gsRot0)
      relativeRotation   == Mat3FromQuat(NegateY(QuatFromMat3(relativeRotation0)))
  IN MatMul(MatMul(Transpose(relativeRotation), cov), relativeRotation)

DeformUnchanged == UNCHANGED <<preVars, calVars, bindVars, stageVars, auxVars>>

\* assignSplatsToPoints for this splat.
BindSplat ==
  /\ dpc = "unbound"
  /\ relativePos' = IF skeletonOnly THEN <<0, 0>>
                    ELSE BindOffset(center0, restVertex, skinMatrix0)
  /\ dpc' = "bound"
  /\ UNCHANGED <<restVertex, skinMatrix0, skinMatrix, meshMatrixWorld, gsRotation0,
                 center0, Vrk, skeletonOnly, rendered>>
  /\ DeformUnchanged

\* The animation sets the bones: the current skin matrix of the vertex.
PoseMesh ==
  /\ dpc = "bound"
  /\ \E rot \in Rotations, tx \in {0, MaxOffset} : skinMatrix' = Transform(rot, <<tx, 0>>)
  /\ dpc' = "posed"
  /\ UNCHANGED <<restVertex, skinMatrix0, meshMatrixWorld, gsRotation0, center0, Vrk,
                 skeletonOnly, relativePos, rendered>>
  /\ DeformUnchanged

\* One run of the patched vertex shader for this splat.
RenderSplat ==
  /\ dpc = "posed"
  /\ rendered' =
       [skinnedRelativePos |-> SkinnedRelativePos(skinMatrix, skinMatrix0, relativePos),
        splatCenter |-> SplatCenter(meshMatrixWorld, skinMatrix, skinMatrix0,
                                    restVertex, relativePos),
        rotatedVrk |-> RotatedVrk(Vrk, skinMatrix, skinMatrix0, gsRotation0)]
  /\ dpc' = "rendered"
  /\ UNCHANGED <<restVertex, skinMatrix0, skinMatrix, meshMatrixWorld, gsRotation0,
                 center0, Vrk, skeletonOnly, relativePos>>
  /\ DeformUnchanged

DeformIdle ==
  /\ dpc = "idle" /\ restVertex = <<0, 0>>
  /\ skinMatrix0 = Transform(Identity, <<0, 0>>) /\ skinMatrix = Transform(Identity, <<0, 0>>)
  /\ meshMatrixWorld = Transform(Identity, <<0, 0>>) /\ gsRotation0 = Identity
  /\ center0 = <<0, 0>> /\ Vrk = Identity /\ skeletonOnly = FALSE
  /\ relativePos = <<0, 0>> /\ rendered = <<>>

-----------------------------------------------------------------------------
(***************************************************************************)
(* The partition of the cloud by cleanSplats                               *)
(* (src/apps/preprocess/preprocess.js 572-589, 620-633).  A splat has one  *)
(* horizontal coordinate x and the height h = -y, in units of 0.1 m; both  *)
(* are IEEE-754 values read by DataView.getFloat32 and may be NaN.         *)
(***************************************************************************)

\* A float is a number or NaN; every comparison with NaN is false and
\* arithmetic on NaN gives NaN.
Fl(n) == [nan |-> FALSE, v |-> n]
NaN   == [nan |-> TRUE, v |-> 0]
JsLt(a, b)  == ~a.nan /\ ~b.nan /\ a.v < b.v
JsLeq(a, b) == ~a.nan /\ ~b.nan /\ a.v <= b.v
JsGt(a, b)  == JsLt(b, a)
JsGeq(a, b) == JsLeq(b, a)
JsSub(a, b) == IF a.nan \/ b.nan THEN NaN ELSE Fl(a.v - b.v)
JsAbs(a)    == IF a.nan THEN NaN ELSE IF a.v < 0 THEN Fl(-a.v) ELSE a
JsTimes(k, a) == IF a.nan THEN NaN ELSE Fl(k * a.v)

\* Coordinates and heights of the splats of the cloud.
CloudXs == {Fl(0), Fl(4), Fl(5), Fl(7), NaN}
CloudHs == {Fl(-6), Fl(-1), Fl(0), Fl(1), Fl(20), Fl(26), NaN}

\* 620-623: inside the column of radius d about the centroid c and within
\* 0.5 m of the height range hs.
InColumn(v, c, d, hs) ==
  /\ JsLeq(JsAbs(JsSub(v.x, Fl(c))), Fl(d))
  /\ JsGeq(v.h, Fl(hs.min - 5))
  /\ JsLeq(v.h, Fl(hs.max + 5))

\* 624-627: outside that column.
OutOfColumn(v, c, d, hs) ==
  \/ JsGt(JsAbs(JsSub(v.x, Fl(c))), Fl(d))
  \/ JsLt(v.h, Fl(hs.min - 5))
  \/ JsGt(v.h, Fl(hs.max + 5))

\* 506: ymin = (heights.max - heights.min) * 0.05 + heights.min, as
\* comparisons of h with ymin multiplied by 20.
Ymin20(hs) == Fl((hs.max - hs.min) + 20 * hs.min)
AboveYmin(h, hs) == JsGeq(JsTimes(20, h), Ymin20(hs))
BelowYmin(h, hs) == JsLt(JsTimes(20, h), Ymin20(hs))
UpToYmin(h, hs)  == JsLeq(JsTimes(20, h), Ymin20(hs))

\* 575-576, 583-585: sqrt(x * x + z * z) < 0.5 about the origin.
NearOrigin(v) == JsLt(JsAbs(v.x), Fl(5))

\* 572-577: the filter of filteredVertices3.
IsForeground(v, hs, kept) ==
  \/ AboveYmin(v.h, hs)
  \/ (JsGeq(v.h, Fl(hs.min)) /\ UpToYmin(v.h, hs) /\ NearOrigin(v) /\ v.x.v \in kept)

\* 580-586: the filter of filteredVertices4.
IsShoeOutlier(v, hs, kept) ==
  \/ JsLt(v.h, Fl(hs.min))
  \/ (BelowYmin(v.h, hs) /\ JsGeq(JsAbs(v.x), Fl(5)))
  \/ (BelowYmin(v.h, hs) /\ NearOrigin(v) /\ v.x.v \notin kept)

\* 620-627: filteredVertices6 and filteredVertices7 (Array.prototype.filter
\* over the splat indices of the cloud).
SplitColumn ==
  /\ clpc = "phase2"
  /\ LET all == [k \in 1..Len(cloud) |-> k - 1]
         In(i)  == InColumn(cloud[i + 1], centroidX, cleanRadius, heights2)
         Out(i) == OutOfColumn(cloud[i + 1], centroidX, cleanRadius, heights2)
     IN /\ filteredVertices6' = SelectSeq(all, In)
        /\ filteredVertices7' = SelectSeq(all, Out)
  /\ clpc' = "phase3"
  /\ UNCHANGED <<cloud, centroidX, cleanRadius, heights2, heights3, keepCells,
                 filteredVertices3, filteredVertices4, filteredVertices5>>
  /\ CleanUnchanged

\* 632-633: detectShoes on filteredVertices6 with the heights of phase 3,
\* then filteredVertices5 = filteredVertices7.concat(filteredVertices4).
DetectShoesAndConcat ==
  /\ clpc = "phase3"
  /\ LET Fg(i) == IsForeground(cloud[i + 1], heights3, keepCells)
         Bg(i) == IsShoeOutlier(cloud[i + 1], heights3, keepCells)
         f4    == SelectSeq(filteredVertices6, Bg)
     IN /\ filteredVertices3' = SelectSeq(filteredVertices6, Fg)
        /\ filteredVertices4' = f4
        /\ filteredVertices5' = filteredVertices7 \o f4
  /\ clpc' = "written"
  /\ UNCHANGED <<cloud, centroidX, cleanRadius, heights2, heights3, keepCells,
                 filteredVertices6, filteredVertices7>>
  /\ CleanUnchanged

CleanIdle ==
  /\ clpc = "idle" /\ cloud = <<>> /\ centroidX = 0 /\ cleanRadius = 0
  /\ heights2 = [min |-> 0, max |-> 0] /\ heights3 = [min |-> 0, max |-> 0]
  /\ keepCells = {}
  /\ filteredVertices6 = <<>> /\ filteredVertices7 = <<>> /\ filteredVertices3 = <<>>
  /\ filteredVertices4 = <<>> /\ filteredVertices5 = <<>>

-----------------------------------------------------------------------------
(***************************************************************************)
(* The grid marking of detectShoes                                         *)
(* (src/apps/preprocess/preprocess.js 513-570).  The grid of the code has  *)
(* 103 x 103 cells of 1 cm; the model has (MaxGridX + 1) x 3 cells, cell   *)
(* k being column k \div 3 (x) and row k % 3 (z).                          *)
(***************************************************************************)

GridXs == 0..MaxGridX
GridZs == 0..2
Rows   == Cardinality(GridZs)
Cells  == 0..((MaxGridX + 1) * Rows - 1)
CellX(k) == k \div Rows
CellZ(k) == k % Rows

\* 522-531: count and mean height (in cm above heights.min) of a cell.
CellKinds == {"empty", "tall", "flat", "sparse"}
CellCount(kind) == CASE kind = "empty" -> 0 [] kind = "sparse" -> 1 [] OTHER -> 3
CellMean(kind)  == CASE kind = "empty" -> 0 [] kind = "flat" -> 1 [] OTHER -> 2

\* 537-538: meanCount is the sum of the counts divided by the number of
\* cells; count > meanCount without the division.
AboveMeanCount(count, kinds) ==
  count * Cardinality(Cells) > SeqSum([k \in 1..Cardinality(Cells) |-> CellCount(kinds[k - 1])])

\* 542: frequency.keep = frequency.count > meanCount && frequency.mean > 0.01.
Marking(kinds) ==
  [k \in Cells |-> AboveMeanCount(CellCount(kinds[k]), kinds) /\ CellMean(kinds[k]) > 1]

\* 553-564: the neighbours of cell k that are outside the grid or not kept
\* in the marking kp.
NotKeptNeighbours(k, kp) ==
  Cardinality({d \in {-1, 0, 1} \X {-1, 0, 1} :
                 /\ d # <<0, 0>>
                 /\ \/ CellX(k) + d[1] \notin GridXs
                    \/ CellZ(k) + d[2] \notin GridZs
                    \/ ~kp[(CellX(k) + d[1]) * Rows + CellZ(k) + d[2]]})

\* 546-570: the demotion pass from cell k on, x outermost and z innermost;
\* a demotion is written to the map the following cells read.
RECURSIVE DemoteFrom(_, _)
DemoteFrom(k, kp) ==
  IF k \notin Cells THEN kp
  ELSE IF kp[k] /\ NotKeptNeighbours(k, kp) >= 5
         THEN DemoteFrom(k + 1, [kp EXCEPT ![k] = FALSE])
         ELSE DemoteFrom(k + 1, kp)

\* 532-570 of detectShoes.
MarkAndDemote ==
  /\ shpc = "binned"
  /\ keep0' = Marking(cellKind)
  /\ keep' = DemoteFrom(0, Marking(cellKind))
  /\ shpc' = "marked"
  /\ UNCHANGED cellKind
  /\ ShoesUnchanged

ShoesIdle ==
  /\ shpc = "idle" /\ cellKind = <<>> /\ keep0 = <<>> /\ keep = <<>>

-----------------------------------------------------------------------------
(***************************************************************************)
(* One calculateHeights run with its floor search, and the centroids       *)
(* around it (src/apps/preprocess/preprocess.js 295-435, 437-502,          *)
(* 606-615).  Heights are the integer centimetre bins of                   *)
(* Math.round(-vertex.y * 100); hints.kneeHeight is held in half           *)
(* centimetres so that it can lie between two bins.                        *)
(***************************************************************************)

WindowN == 5
Bins == 0..MaxBin

\* Sum of the counts of the bins lo..hi of the frequency map of f.
RECURSIVE BinSum(_, _, _)
BinSum(f, lo, hi) ==
  IF lo > hi THEN 0
  ELSE (IF lo \in Bins THEN f[lo] ELSE 0) + BinSum(f, lo + 1, hi)

Total(f) == BinSum(f, 0, MaxBin)

\* 314-324: the vertices of the search column or, when there is none,
\* all vertices with |y| < distY.
RadiusFiltered(col, out) == IF Total(col) = 0 THEN out ELSE col

\* 354: if (hints && hints.kneeHeight && currentY / 100.0 > hints.kneeHeight).
SkipWindow(currentY, k) == k.given /\ k.v # 0 /\ 2 * currentY > k.v

\* 351-376: the window positions from currentY = y on, up to the last one
\* (last); best is maxDifference (none: -Infinity) and fl is floorY.
RECURSIVE ScanWindows(_, _, _, _, _)
ScanWindows(f, y, last, k, acc) ==
  IF y > last THEN acc
  ELSE IF SkipWindow(y, k) THEN ScanWindows(f, y + 1, last, k, acc)
  ELSE LET difference == BinSum(f, y, y + WindowN - 1) - BinSum(f, y - WindowN, y - 1)
       IN IF ~acc.found \/ difference > acc.best
            THEN ScanWindows(f, y + 1, last, k,
                             [found |-> TRUE, best |-> difference, fl |-> y + 1])
            ELSE ScanWindows(f, y + 1, last, k, acc)

\* 326-379: the floor search over the bins minY..maxY of the filtered
\* vertices: i runs from N to length - N, currentY from the lowest bin
\* with a point to one above the highest.
FloorSearchOf(f, k) ==
  LET used == {y \in Bins : f[y] > 0}
      lowest  == CHOOSE y \in used : \A z \in used : y <= z
      highest == CHOOSE y \in used : \A z \in used : z <= y
  IN ScanWindows(f, lowest, highest + 1, k, [found |-> FALSE, best |-> 0, fl |-> lowest])

\* 606-610: initialCentroid = sums / plyData.vertices.length.
InitialCentroid ==
  /\ fpc = "loaded"
  /\ divisors' = divisors \cup {Total(columnBins) + Total(outsideBins)}
  /\ fpc' = "heights"
  /\ UNCHANGED <<fphase, columnBins, outsideBins, outsideWithin, knee, floorY>>
  /\ FloorUnchanged

\* 295-435: one run of calculateHeights.  The validation (393-421) counts
\* the points within distXZ in the height band: it cannot pass when there
\* is no point within distXZ.
HeightsRun ==
  /\ fpc = "heights"
  /\ LET f == RadiusFiltered(columnBins, outsideBins)
         within == Total(columnBins) + (IF outsideWithin THEN Total(outsideBins) ELSE 0)
     IN IF Total(f) = 0
          THEN fpc' = "thrownEmpty" /\ UNCHANGED floorY
          ELSE LET r == FloorSearchOf(f, knee)
               IN IF ~r.found
                    THEN fpc' = "thrownNoFloor" /\ UNCHANGED floorY
                    ELSE /\ floorY' = r.fl
                         /\ \E pass \in BOOLEAN :
                              /\ pass => within > 0
                              /\ fpc' = IF pass THEN "returned" ELSE "enlarged"
  /\ UNCHANGED <<fphase, columnBins, outsideBins, outsideWithin, knee, divisors>>
  /\ FloorUnchanged

\* 437-457, 471-491: calculateCentroidFeet / calculateCentroidHead on the
\* points of their height band: none throws [ErrorID 5].
CentroidOfBand ==
  /\ fpc = "returned"
  /\ \E bandCount \in 0..2 :
       IF bandCount = 0
         THEN fpc' = "thrown5" /\ UNCHANGED divisors
         ELSE fpc' = "centred" /\ divisors' = divisors \cup {bandCount}
  /\ UNCHANGED <<fphase, columnBins, outsideBins, outsideWithin, knee, floorY>>
  /\ FloorUnchanged

FloorIdle ==
  /\ fpc = "idle" /\ fphase = 0 /\ columnBins = <<>> /\ outsideBins = <<>>
  /\ outsideWithin = FALSE /\ knee = [given |-> FALSE, v |-> 0]
  /\ floorY = 0 /\ divisors = {}

-----------------------------------------------------------------------------
(***************************************************************************)
(* PLYParser.parsePLY (src/gvrm-format/ply.js 11-21, 23-268, 317-321)      *)
(***************************************************************************)

\* ply.js 15-20: this.propertyTypes, the byte size of a property type; the
\* files read here use 'uchar' and 'short'.
PropertyTypes == {"uchar", "short"}
TypeSize(type) == IF type = "uchar" THEN 1 ELSE 2

\* ply.js 70-72 (187-189): vertexSize, the sizes of this.properties summed.
RECURSIVE VertexSize(_)
VertexSize(props) ==
  IF props = <<>> THEN 0 ELSE TypeSize(props[1].type) + VertexSize(Tail(props))

\* ply.js 86-113 (201-228): the DataView getter of a type at byte position
\* pos (0-based) of the body: getUint8, or getInt16 little-endian.  A read
\* past the end of the buffer throws a RangeError.
ReadValue(type, pos, body) ==
  IF pos + TypeSize(type) > Len(body) THEN [thrown |-> TRUE, value |-> 0]
  ELSE IF type = "uchar" THEN [thrown |-> FALSE, value |-> body[pos + 1]]
  ELSE LET u == body[pos + 1] + 256 * body[pos + 2]
       IN [thrown |-> FALSE, value |-> IF u >= 32768 THEN u - 65536 ELSE u]

\* ply.js 82-117 (197-232): the properties loop of one vertex starting at
\* byte position pos: vertex[prop.name] = value, a later property of the
\* same name overwriting an earlier one.
RECURSIVE ReadProperties(_, _, _, _)
ReadProperties(props, pos, body, vertex) ==
  IF props = <<>> THEN [thrown |-> FALSE, vertex |-> vertex]
  ELSE LET r == ReadValue(props[1].type, pos, body)
       IN IF r.thrown THEN [thrown |-> TRUE, vertex |-> vertex]
          ELSE ReadProperties(Tail(props), pos + TypeSize(props[1].type), body,
                 [n \in DOMAIN vertex \cup {props[1].name} |->
                    IF n = props[1].name THEN r.value ELSE vertex[n]])

\* ply.js 79: Uint8Array.slice clamps to the end of the array.
RawData(body, from, to) ==
  [k \in 1..((IF to < Len(body) THEN to ELSE Len(body)) - (IF from < Len(body) THEN from ELSE Len(body))) |->
     body[from + k]]

\* ply.js 77-140 (192-255): the vertex loop; offset advances by vertexSize.
RECURSIVE ReadVertices(_, _, _, _, _)
ReadVertices(i, count, props, body, acc) ==
  IF i >= count THEN [thrown |-> FALSE, vertices |-> acc]
  ELSE LET size == VertexSize(props)
           r    == ReadProperties(props, i * size, body, <<>>)
       IN IF r.thrown THEN [thrown |-> TRUE, vertices |-> acc]
          ELSE ReadVertices(i + 1, count, props, body,
                 Append(acc, [rawData |-> RawData(body, i * size, (i + 1) * size),
                              fields  |-> r.vertex]))

\* ply.js 60-66 (176-182): the header loop pushes every property line of the
\* header onto this.properties.
PushProperties(old, header) == old \o header

\* ply.js 23-268: parsePLY (PLYLoader.load, 317-321, is the same call).  The
\* files read here name no property f_dc_0..2, so the colour conversion at
\* 120-125 adds no field.
ParsePLY ==
  /\ plypc = "ready"
  /\ Len(parsed) < MaxParses
  /\ properties' = PushProperties(properties, fileProperties)
  /\ LET r == ReadVertices(0, fileVertexCount, properties', fileBody, <<>>)
     IN parsed' = Append(parsed,
          IF r.thrown THEN [thrown |-> TRUE]
          ELSE [thrown |-> FALSE, properties |-> properties',
                vertexSize |-> VertexSize(properties'), vertices |-> r.vertices,
                vertexCount |-> fileVertexCount])
  /\ UNCHANGED <<plypc, fileProperties, fileVertexCount, fileBody, parsers>>
  /\ PlyUnchanged

\* ply.js 11-21: the caller drops the instance and constructs a new one.
NewParser ==
  /\ plypc = "ready"
  /\ parsed # <<>>
  /\ parsers < MaxParsers
  /\ parsers' = parsers + 1
  /\ properties' = <<>>
  /\ parsed' = <<>>
  /\ UNCHANGED <<plypc, fileProperties, fileVertexCount, fileBody>>
  /\ PlyUnchanged

PlyIdle ==
  /\ plypc = "idle" /\ fileProperties = <<>> /\ fileVertexCount = 0
  /\ fileBody = <<>> /\ properties = <<>> /\ parsed = <<>> /\ parsers = 0


-----------------------------------------------------------------------------
(***************************************************************************)
(* One GVRM object: load(), remove() and update()                          *)
(* (src/gvrm-format/gvrm.js 14-21, 359-398, 478-489)                       *)
(***************************************************************************)

RemovePositions == {"afterLeave", "afterDispose"}

\* A remove() call reaches or leaves an await.
Waiting(bag, pos) == [bag EXCEPT ![pos] = @ + 1]
Resumed(bag, pos) == [bag EXCEPT ![pos] = @ - 1]

\* gvrm.js 375-376: load() up to `await GVRM.load(...)`.
LoadStart ==
  /\ lpc = "live" /\ calls < MaxCalls
  /\ calls' = calls + 1
  /\ loading' = loading + 1
  /\ UNCHANGED <<lpc, character, gvrmGs, isReady, removing, left, loaded, frames, updateThrew>>
  /\ LifeUnchanged

\* gvrm.js 376-388: GVRM.load has resolved; the fields of the new object are
\* copied and isReady is set.
LoadFinish ==
  /\ lpc = "live" /\ loading > 0
  /\ loading' = loading - 1
  /\ loaded' = loaded + 1
  /\ character' = loaded'
  /\ gvrmGs' = loaded'
  /\ isReady' = TRUE
  /\ UNCHANGED <<lpc, removing, left, calls, frames, updateThrew>>
  /\ LifeUnchanged

\* gvrm.js 395-397 and 359-367: remove() sets isReady = false and runs
\* GVRM.remove up to its first await: character.leave (vrm.js 204-209, no
\* await inside) when there is a character, else gs.viewer.dispose when
\* there is a cloud, else to the end.
RemoveStart ==
  /\ lpc = "live" /\ calls < MaxCalls
  /\ calls' = calls + 1
  /\ isReady' = FALSE
  /\ IF character # 0
       THEN /\ left' = left \cup {character}
            /\ removing' = Waiting(removing, "afterLeave")
       ELSE /\ UNCHANGED left
            /\ removing' = IF gvrmGs # 0 THEN Waiting(removing, "afterDispose") ELSE removing
  /\ UNCHANGED <<lpc, character, gvrmGs, loading, loaded, frames, updateThrew>>
  /\ LifeUnchanged

\* gvrm.js 361-367: after `await gvrm.character.leave(scene)`.
RemoveAfterLeave ==
  /\ lpc = "live" /\ removing["afterLeave"] > 0
  /\ character' = 0
  /\ removing' = IF gvrmGs # 0
                   THEN Waiting(Resumed(removing, "afterLeave"), "afterDispose")
                   ELSE Resumed(removing, "afterLeave")
  /\ UNCHANGED <<lpc, gvrmGs, isReady, loading, left, loaded, calls, frames, updateThrew>>
  /\ LifeUnchanged

\* gvrm.js 366-372: after `await gvrm.gs.viewer.dispose()`.
RemoveAfterDispose ==
  /\ lpc = "live" /\ removing["afterDispose"] > 0
  /\ gvrmGs' = 0
  /\ removing' = Resumed(removing, "afterDispose")
  /\ UNCHANGED <<lpc, character, isReady, loading, left, loaded, calls, frames, updateThrew>>
  /\ LifeUnchanged

\* gvrm.js 478-489: update(), called once per rendered frame; it reads
\* this.character.currentVrm.scene and this.gs.viewer.
Update ==
  /\ lpc = "live" /\ frames < MaxFrames
  /\ frames' = frames + 1
  /\ updateThrew' = (updateThrew \/ (isReady /\ (character = 0 \/ character \in left \/ gvrmGs = 0)))
  /\ UNCHANGED <<lpc, character, gvrmGs, isReady, loading, removing, left, loaded, calls>>
  /\ LifeUnchanged

LifeIdle ==
  /\ lpc = "idle" /\ character = 0 /\ gvrmGs = 0 /\ isReady = FALSE /\ loading = 0
  /\ removing = <<>> /\ left = {} /\ loaded = 0 /\ calls = 0 /\ frames = 0
  /\ updateThrew = FALSE


-----------------------------------------------------------------------------
(***************************************************************************)
(* The command-line tool (src/mock-texture-loader.js 453-680) with the     *)
(* save of preprocess2 (preprocess.js 1302-1304) and GVRM.save in Node     *)
(* (gvrm.js 279-337)                                                       *)
(***************************************************************************)

\* Paths are [dir, base, ext]: the directory ("cwd" for the working
\* directory), the name without extension, and the extension.
Directories == {"cwd", "elsewhere"}
Extensions == {".gvrm", ""}

\* path.basename(p, '.gvrm'): the last segment, without a trailing '.gvrm';
\* a relative name, [dir |-> ""].
Basename(p) == [dir |-> "", base |-> p.base, ext |-> IF p.ext = ".gvrm" THEN "" ELSE p.ext]

\* gvrm.js 330: fs.writeFileSync resolves a relative name against the
\* working directory of the process.
Resolved(p) == IF p.dir = "" THEN [p EXCEPT !.dir = "cwd"] ELSE p

\* gvrm.js 303-307: the file name GVRM.save writes to: the fileName argument
\* when it is given, else the name of the point-cloud file with '.gvrm'.
SaveTarget(name) == Resolved(name)

\* mock-texture-loader.js 615-633: main() calls preprocess with stage '2'
\* under --nocheck and fileName = path.basename(outputGvrm, '.gvrm');
\* preprocess returns the result object with promise2 running, or the error
\* object after saveError.
CliPreprocess ==
  /\ cliPc = "start"
  /\ cliStage' = IF cliOptions.nocheck THEN "2" ELSE "null"
  /\ fileName' = Basename(outputGvrm)
  /\ \E ok \in BOOLEAN : cliPc' = IF ok THEN "preprocess2" ELSE "noResult"
  /\ UNCHANGED <<outputGvrm, cliOptions, written, saveRuns>>
  /\ CliUnchanged

\* preprocess.js 1284-1304 and gvrm.js 279-337: preprocess2 binds and calls
\* gvrm.save(..., fileName, savePly = false); in Node _downloadBlob writes
\* the archive with fs.writeFileSync(fileName).  A throw of the binding
\* rejects promise2.
Preprocess2Save ==
  /\ cliPc = "preprocess2"
  /\ \E bound \in BOOLEAN :
       IF bound
         THEN /\ saveRuns' = saveRuns + 1
              /\ written' = Append(written, SaveTarget(fileName))
              /\ cliPc' = "awaited"
         ELSE /\ cliPc' = "exit1"
              /\ UNCHANGED <<written, saveRuns>>
  /\ UNCHANGED <<outputGvrm, cliOptions, cliStage, fileName>>
  /\ CliUnchanged

\* mock-texture-loader.js 637-661: after `await result.promise2`, main()
\* calls gvrm.save(..., outputGvrm, false); without a gvrm in the result it
\* exits with status 1.
CliSave ==
  /\ cliPc \in {"awaited", "noResult"}
  /\ IF cliPc = "awaited"
       THEN /\ saveRuns' = saveRuns + 1
            /\ written' = Append(written, SaveTarget(outputGvrm))
            /\ cliPc' = "success"
       ELSE /\ cliPc' = "exit1"
            /\ UNCHANGED <<written, saveRuns>>
  /\ UNCHANGED <<outputGvrm, cliOptions, cliStage, fileName>>
  /\ CliUnchanged

CliIdle ==
  /\ cliPc = "idle" /\ outputGvrm = <<>> /\ cliOptions = <<>> /\ cliStage = "null"
  /\ fileName = <<>> /\ written = <<>> /\ saveRuns = 0


AuxIdle == CleanIdle /\ ShoesIdle /\ FloorIdle /\ PlyIdle /\ LifeIdle /\ CliIdle

-----------------------------------------------------------------------------
(* Specifications *)

\* A top-level call preprocess(vrmPath, gsPath, ..., stage, ..., nocheck, ..., hints).
InitPre ==
  /\ pc = "validate"
  /\ stage \in StageInputs
  /\ nocheck \in BOOLEAN
  /\ hints0 \in InitialHints
  /\ hints = hints0
  /\ invocations = 1
  /\ circle = FALSE /\ circleHead = FALSE
  /\ failures = <<>> /\ retriedAfter = <<>>
  /\ saveErrorCalls = 0 /\ saveCalls = 0
  /\ promise2 = "none"
  /\ gs = 0 /\ clouds = 0 /\ bindRuns = <<>> /\ boundClouds = {}
  /\ checksRun = {} /\ detectorUsed = FALSE
  /\ CalIdle /\ BindIdle /\ StagesIdle /\ DeformIdle /\ AuxIdle

NextPre ==
  \/ ValidateStage
  \/ CleanAndShow
  \/ LoadMain
  \/ AdjustPosScale
  \/ AdjustAngle
  \/ GroundCheck
  \/ BoneOperations
  \/ CapsulesAndFinalCheck
  \/ LaunchPreprocess2
  \/ P2Bind
  \/ P2Save
  \/ P2Reload

SpecPre == InitPre /\ [][NextPre]_vars

\* cleanSplats(gsPath, loadingSpinner, hints, ...): phase 1 starts at 0.3 (614).
InitCal ==
  /\ cpc = "heights" /\ phase = 1
  /\ distXZ = D0_3 /\ startXZ = D0_3
  /\ reruns = 0 /\ measured = <<>>
  /\ kneeHint \in BOOLEAN
  /\ accepted = <<>> /\ session = <<>>
  /\ PreIdle /\ BindIdle /\ StagesIdle /\ DeformIdle /\ AuxIdle

NextCal ==
  \/ CalculateHeightsRun
  \/ CalculateCentroid

SpecCal == InitCal /\ [][NextCal]_vars

\* Every run and every centroid step is a continuation of an await on a
\* timer (305, 465, 499), which the event loop always resumes.
SpecCalFair == SpecCal /\ WF_vars(CalculateHeightsRun) /\ WF_vars(CalculateCentroid)

-----------------------------------------------------------------------------
(***************************************************************************)
(* Properties of preprocess() (SpecPre)                                    *)
(***************************************************************************)

\* C4: a top-level call of preprocess re-invokes itself at most once:
\* there are never more than two invocations, hints.retry of the hints
\* object never decreases, and a recursive call is made only with a
\* non-null hints whose retry count is at most 1.
C4_AtMostOneRetry ==
  /\ [](invocations <= 2)
  /\ [][(~hints.isNull /\ ~hints'.isNull) => hints'.retry >= hints.retry]_vars
  /\ [][invocations' # invocations => (~hints'.isNull /\ hints'.retry <= 1)]_vars

\* C4 witness: a run that was retried once and failed again, for good.
C4_Witness == invocations = 2 /\ pc = "error" /\ Len(failures) = 2

\* The number of entries of the history h whose kind is k.
CountKind(h, k) == Cardinality({i \in DOMAIN h : h[i].kind = k})

\* C5 (as claimed): once the ground check has found the knees below the
\* floor, the run has been retried exactly once for that reason, with
\* hints.kneeHeight set, whatever the initial hints; a second such failure
\* is not retried.
C5_KneeRetriedOnce ==
  CountKind(failures, "kneeBelow") >= 1 =>
    /\ CountKind(retriedAfter, "kneeBelow") = 1
    /\ \A i \in DOMAIN retriedAfter :
         retriedAfter[i].kind = "kneeBelow" => retriedAfter[i].hints.kneeHeight

\* C6 (as claimed): no recursive call of preprocess follows an A-pose check
\* failure or a failure to load the point cloud or the VRM.
C6_NoRetryOnFatal ==
  \A i \in DOMAIN retriedAfter : retriedAfter[i].kind \notin {"apose", "load"}

\* C7 (as claimed): a failure before the binding stage never ends in a
\* rejected promise; it resolves to {error: message} and GVRM.save has not
\* been called.
C7_StructuredError ==
  /\ pc # "rejected"
  /\ pc = "error" => (saveCalls = 0 /\ promise2 = "none")

\* C8 (as claimed): whenever a run ends in terminal failure, in preprocess
\* or inside preprocess2, saveError has been called exactly once.
C8_SaveErrorOnce ==
  (pc = "error" \/ promise2 = "rejected") => saveErrorCalls = 1

-----------------------------------------------------------------------------
(***************************************************************************)
(* Properties of calculateHeights() (SpecCal, SpecCalFair)                 *)
(***************************************************************************)

\* C9 (as claimed): in a top-level calculateHeights call started at 0.3 the
\* radii of the successive runs are non-decreasing, each is the previous
\* one plus 0.1, and none is greater than 3.0.
C9_RadiusBounded ==
  startXZ = D0_3 =>
    \A i \in DOMAIN measured :
      /\ FLeq(measured[i], D3_0)
      /\ i > 1 => /\ measured[i] = FAdd(measured[i - 1], D0_1)
                  /\ FLeq(measured[i - 1], measured[i])

\* C10: calculateHeights always terminates: a running call is eventually
\* left (by a result or a throw), it makes at most 27 re-runs (one per 0.1
\* step from 0.3 to the cap), and when the thresholds still fail at the cap
\* it throws 'could not find target' [ErrorID 6]: the throw happens only at
\* a radius that is not below 3.0, after all 27 re-runs when started at 0.3.
C10_Terminates ==
  /\ (cpc = "heights") ~> (cpc # "heights")
  /\ [](reruns <= 27)
  /\ [](cpc = "thrown6" => (~FLess(distXZ, D3_0) /\ (startXZ = D0_3 => reruns = 27)))

\* C10 witness: phase 1 failed its thresholds at every radius and threw.
C10_Witness == cpc = "thrown6" /\ phase = 1 /\ reruns = 27 /\ Len(measured) = 28

\* preprocess2 on a freshly loaded cloud (gs) and character: the cloud has
\* up to MaxSplats splats, the skeleton gives up to MaxCapsules capsules,
\* the mesh is skeleton-only (3 vertices) or has up to MaxVertices vertices.
InitBind ==
  /\ bpc = "unbound"
  /\ \E n \in 0..MaxSplats : centers \in [1..n -> Coords]
  /\ \E c \in 0..MaxCapsules :
       /\ capsules \in {cs \in [1..c -> CapsuleShapes] :
                         \A k \in 1..(c - 1) : ShapeRank(cs[k]) < ShapeRank(cs[k + 1])}
       /\ capsuleBoneIndex = [k \in 1..c |-> SkeletonIndex(k - 1)]
  /\ vertexCount \in VertexCounts
  /\ fast \in BOOLEAN
  /\ skinShift \in IF IsCliMesh(vertexCount) THEN {0} ELSE {0, 1}
  /\ boneVertexIndices = <<>>
  /\ splatBoneIndices = <<>> /\ splatVertexIndices = <<>> /\ splatRelativePoses = <<>>
  /\ splatCount = Len(centers)
  /\ gsRecords = [k \in 1..Len(centers) |-> k - 1]
  /\ plyFile = gsRecords
  /\ archive = <<>> /\ savedArrays = <<>> /\ cycles = 0 /\ distanceCalls = 0
  /\ sceneSplatIndices = <<>> /\ boneSceneMap = <<>> /\ reloaded = FALSE
  /\ PreIdle /\ CalIdle /\ StagesIdle /\ DeformIdle /\ AuxIdle

NextBind ==
  \/ AssignSplatsToBones
  \/ AssignSplatsToPoints
  \/ Save
  \/ Load

SpecBind == InitBind /\ [][NextBind]_vars

\* C1: after assignSplatsToBones and assignSplatsToPoints have completed on
\* a mesh of more than 3 vertices with at least one capsule, the vertex
\* bound to every splat is a vertex index that lies in the vertex pool of
\* the splat's bone, i.e. the vertex classification gave that vertex the
\* bone stored for the splat.
C1_BoneConsistent ==
  (bpc \in {"bound", "saved", "loaded"} /\ ~IsCliMesh(vertexCount) /\ Len(capsules) >= 1) =>
    \A i \in 1..splatCount :
      /\ splatVertexIndices[i].t = "number"
      /\ splatBoneIndices[i].t = "number"
      /\ splatBoneIndices[i].v \in DOMAIN boneVertexIndices
      /\ \E k \in DOMAIN boneVertexIndices[splatBoneIndices[i].v] :
           boneVertexIndices[splatBoneIndices[i].v][k] = splatVertexIndices[i].v
      /\ LET near == NearestCapsuleOfVertex(
                       PosedPosition(splatVertexIndices[i].v, skinShift), capsules)
         IN near.defined /\ capsuleBoneIndex[near.ci + 1] = splatBoneIndices[i].v

\* A completed full binding (not fast) with two bones in use in which some
\* splat is bound to a vertex that is not the nearest vertex of the mesh.
C1_Witness ==
  /\ bpc = "bound" /\ ~IsCliMesh(vertexCount) /\ Len(capsules) = 2 /\ ~fast
  /\ splatCount = 3
  /\ \E i, j \in 1..splatCount : splatBoneIndices[i] # splatBoneIndices[j]
  /\ \E i \in 1..splatCount : \E w \in 0..(vertexCount - 1) :
       Abs(PosedPosition(w, skinShift) - centers[i])
         < Abs(PosedPosition(splatVertexIndices[i].v, skinShift) - centers[i])

\* C2 as stated: GVRM.save followed by GVRM.load gives the three arrays back
\* identical, index by index, to the arrays that were saved.
C2_IndexByIndex ==
  bpc = "loaded" =>
    /\ splatVertexIndices = savedArrays.splatVertexIndices
    /\ splatBoneIndices   = savedArrays.splatBoneIndices
    /\ splatRelativePoses = savedArrays.splatRelativePoses

Orders(n) ==
  {p \in [1..n -> 1..n] : \A a, b \in 1..n : p[a] = p[b] => a = b}

FirstPosition(s, x) == CHOOSE k \in DOMAIN s : s[k] = x /\ \A m \in 1..(k - 1) : s[m] # x

\* p lists the positions of s bone by bone, the bones in order of first
\* appearance and the positions of one bone ascending.
GroupsByBone(p, s) ==
  \A a, b \in DOMAIN p : a < b =>
    \/ FirstPosition(s, s[p[a]]) < FirstPosition(s, s[p[b]])
    \/ s[p[a]] = s[p[b]] /\ p[a] < p[b]

\* C2, amended: GVRM.save followed by GVRM.load gives back the saved
\* entries with their values unchanged but regrouped by bone: the loaded
\* (bone, vertex, offset) triple at each index is the saved triple of the
\* splat that the bone-by-bone order (bones by first appearance, splats
\* ascending within a bone) puts at that index; the loaded arrays equal
\* the saved ones index by index when that order is the identity.
C2_RegroupedRoundTrip ==
  bpc = "loaded" =>
    LET sb == savedArrays.splatBoneIndices
        sv == savedArrays.splatVertexIndices
        sr == savedArrays.splatRelativePoses
        n  == Len(sb)
    IN /\ Len(splatBoneIndices) = n
       /\ Len(splatVertexIndices) = n
       /\ Len(splatRelativePoses) = 3 * n
       /\ \E p \in Orders(n) :
            /\ GroupsByBone(p, sb)
            /\ \A j \in 1..n :
                 /\ splatBoneIndices[j] = sb[p[j]]
                 /\ splatVertexIndices[j] = sv[p[j]]
                 /\ \A c \in 1..3 :
                      splatRelativePoses[3 * (j - 1) + c] = sr[3 * (p[j] - 1) + c]
            /\ (\A j \in 1..n : p[j] = j) => C2_IndexByIndex

\* A first load of a full binding whose saved bone array was not grouped,
\* so that the loaded arrays differ from the saved ones.
C2_Witness ==
  /\ bpc = "loaded" /\ cycles = 1 /\ ~IsCliMesh(vertexCount)
  /\ splatBoneIndices # savedArrays.splatBoneIndices
  /\ splatVertexIndices # savedArrays.splatVertexIndices

\* C3: after binding, and after any number of save/load round trips, the
\* bone array, the vertex array and a third of the relative-pose array all
\* have the length splatCount of the cloud.
C3_LengthsConsistent ==
  bpc \in {"bound", "saved", "loaded"} =>
    /\ Len(splatBoneIndices) = splatCount
    /\ Len(splatVertexIndices) = splatCount
    /\ Len(splatRelativePoses) = 3 * splatCount
    /\ Len(gsRecords) = splatCount

\* The second load of a fully bound three-splat cloud with two bones in use.
C3_Witness ==
  /\ bpc = "loaded" /\ cycles = 2 /\ splatCount = 3 /\ ~IsCliMesh(vertexCount)
  /\ \E i, j \in 1..splatCount : splatBoneIndices[i] # splatBoneIndices[j]
  /\ Len(splatRelativePoses) = 9

\* C11: with zero capsules assignSplatsToBones ends without an error, gives
\* every splat bone index 0, produces exactly splatCount entries and makes
\* no distance computation, for every splatCount including 0.
C11_ZeroCapsules ==
  /\ [][(bpc = "unbound" /\ Len(capsules) = 0) => bpc' = "bonesAssigned"]_vars
  /\ []((bpc = "bonesAssigned" /\ Len(capsules) = 0) =>
          /\ Len(splatBoneIndices) = splatCount
          /\ \A i \in 1..splatCount : splatBoneIndices[i] = Num(0)
          /\ distanceCalls = 0)

\* Three splats classified with no capsule.
C11_Witness ==
  bpc = "bonesAssigned" /\ Len(capsules) = 0 /\ splatCount = 3 /\ Len(splatBoneIndices) = 3

\* The least point-to-triangle distance from p over the triangles of a capsule.
CapsuleDistance(p, capsule) ==
  LET ds == {Abs(p - capsule[k]) : k \in DOMAIN capsule}
  IN CHOOSE d \in ds : \A e \in ds : d <= e

\* C12: in non-fast mode assignSplatsToBones gives every splat the bone of a
\* capsule whose least point-to-triangle distance is smallest among all
\* capsules, and among several capsules at exactly that distance the one
\* with the lowest index.
C12_NearestCapsuleLowestIndex ==
  (bpc \in {"bonesAssigned", "bound", "thrown", "saved"} /\ cycles = 0
     /\ ~fast /\ Len(capsules) >= 1) =>
    \A i \in 1..splatCount :
      \E ci \in 1..Len(capsules) :
        /\ splatBoneIndices[i] = Num(capsuleBoneIndex[ci])
        /\ \A cj \in 1..Len(capsules) :
             CapsuleDistance(centers[i], capsules[ci]) <= CapsuleDistance(centers[i], capsules[cj])
        /\ \A cj \in 1..(ci - 1) :
             CapsuleDistance(centers[i], capsules[ci]) < CapsuleDistance(centers[i], capsules[cj])

\* A splat at the same distance from both capsules, one of them with two
\* triangles, classified in non-fast mode.
C12_Witness ==
  /\ bpc = "bonesAssigned" /\ ~fast /\ Len(capsules) = 2
  /\ \E k \in 1..2 : Len(capsules[k]) = 2
  /\ \E i \in 1..splatCount :
       /\ CapsuleDistance(centers[i], capsules[1]) = CapsuleDistance(centers[i], capsules[2])
       /\ splatBoneIndices[i] = Num(capsuleBoneIndex[1])

InitStages ==
  /\ p2pc = "bones" /\ loopIndex = 0 /\ suspended = FALSE
  /\ p2Splats \in {0, 1, MaxP2Splats}
  /\ p2Vertices \in {3, MaxP2Vertices}
  /\ p2Capsules \in {0, 1}
  /\ nBones = 0 /\ nClassified = 0 /\ nVertexIdx = 0 /\ nPoses = 0
  /\ saveStarted = FALSE /\ observed = <<>>
  /\ PreIdle /\ CalIdle /\ BindIdle /\ DeformIdle /\ AuxIdle

NextStages ==
  \/ BonesStep
  \/ VerticesStep
  \/ PointsStep
  \/ OffsetsStep
  \/ SaveStep
  \/ Resume
  \/ Frame

SpecStages == InitStages /\ [][NextStages]_vars

\* C14: in preprocess2 the stages never overlap: every splat has its bone
\* before the first mesh vertex is classified, every mesh vertex is
\* classified before the first splat gets a vertex, and gvrm.save starts
\* only when every splat has a bone, a vertex and an offset; a loop that
\* yields goes on with the next index, in the same stage.
C14_StagesInOrder ==
  /\ []((nClassified > 0 \/ nVertexIdx > 0 \/ nPoses > 0) => nBones = p2Splats)
  /\ []((nVertexIdx > 0 /\ ~IsCliMesh(p2Vertices)) => nClassified = p2Vertices)
  /\ [](nPoses > 0 => nVertexIdx = p2Splats)
  /\ [](saveStarted => (nBones = p2Splats /\ nVertexIdx = p2Splats /\ nPoses = p2Splats))
  /\ [](nBones <= p2Splats /\ nClassified <= p2Vertices /\ nVertexIdx <= p2Splats)
  /\ [][suspended => (p2pc' = p2pc /\ nBones' = nBones /\ nClassified' = nClassified
                       /\ nVertexIdx' = nVertexIdx /\ nPoses' = nPoses
                       /\ saveStarted' = saveStarted)]_vars
  /\ [][(suspended /\ ~suspended') => loopIndex' = loopIndex + 1]_vars

\* A run over more than 200 splats and 100 vertices that was seen suspended
\* at index 200 of the third loop and has started the save.
C14_Witness ==
  /\ p2pc = "done" /\ saveStarted /\ p2Splats > 200 /\ p2Vertices > 100
  /\ observed = <<"points", 200>>

\* A splat and the mesh vertex it will be bound to, in the bind-time pose.
InitDeform ==
  /\ dpc = "unbound"
  /\ restVertex \in {<<1, 0>>, <<1, MaxOffset>>}
  /\ \E rot \in Rotations, tx \in {0, MaxOffset} : skinMatrix0 = Transform(rot, <<tx, 0>>)
  /\ skinMatrix = skinMatrix0
  /\ \E rot \in {RotY(0), RotY(1)}, tz \in {0, MaxOffset + 1} :
       meshMatrixWorld = Transform(rot, <<0, tz>>)
  /\ gsRotation0 \in Rotations
  /\ center0 \in {<<0, 1>>, <<MaxOffset, 1>>}
  /\ Vrk \in {<<1, 0, 0, 1>>, <<4, 1, 1, 2>>}
  /\ skeletonOnly \in BOOLEAN
  /\ relativePos = <<0, 0>> /\ rendered = <<>>
  /\ PreIdle /\ CalIdle /\ BindIdle /\ StagesIdle /\ AuxIdle

NextDeform ==
  \/ BindSplat
  \/ PoseMesh
  \/ RenderSplat

SpecDeform == InitDeform /\ [][NextDeform]_vars

\* The claim's case: the splat is rendered with the current skin matrix of
\* its vertex equal to the bind-time one.
IdentityPoseChange == dpc = "rendered" /\ skinMatrix = skinMatrix0

\* C15 as stated: for a bound splat under an identity pose change the
\* deformer computes skinnedRelativePos = relativePos, puts the centre at
\* meshMatrixWorld * (posed vertex + relativeOffset), which is the
\* bind-time centre, and leaves the covariance unrotated.
C15_IdentityPoseAnyBinding ==
  IdentityPoseChange =>
    /\ rendered.skinnedRelativePos = relativePos
    /\ rendered.splatCenter =
         ApplyPoint(meshMatrixWorld, VAdd(ApplyPoint(skinMatrix, restVertex), relativePos))
    /\ rendered.splatCenter = ApplyPoint(meshMatrixWorld, center0)
    /\ rendered.rotatedVrk = Vrk

\* C15, amended: under an identity pose change the deformer computes
\* skinnedRelativePos = relativePos, puts the centre at meshMatrixWorld *
\* (posed vertex + relativeOffset) and leaves the covariance unrotated;
\* that centre is the bind-time centre when the splat was bound on a mesh
\* of more than 3 vertices, and the posed position of vertex 0 when it was
\* bound on the skeleton-only mesh.
C15_IdentityPose ==
  IdentityPoseChange =>
    /\ rendered.skinnedRelativePos = relativePos
    /\ rendered.splatCenter =
         ApplyPoint(meshMatrixWorld, VAdd(ApplyPoint(skinMatrix, restVertex), relativePos))
    /\ rendered.rotatedVrk = Vrk
    /\ ~skeletonOnly => rendered.splatCenter = ApplyPoint(meshMatrixWorld, center0)
    /\ skeletonOnly => rendered.splatCenter =
                         ApplyPoint(meshMatrixWorld, ApplyPoint(skinMatrix, restVertex))

\* A splat bound on a full mesh in a turned and shifted bind pose, with an
\* offset, an anisotropic covariance and a turned cloud, rendered in the
\* bind pose.
C15_Witness ==
  /\ IdentityPoseChange /\ ~skeletonOnly
  /\ skinMatrix0 = Transform(RotY(1), <<MaxOffset, 0>>)
  /\ relativePos # <<0, 0>> /\ Vrk = <<4, 1, 1, 2>> /\ gsRotation0 = RotY(1)
  /\ meshMatrixWorld.rot = RotY(1)

\* C16: sortSplatsByBones gives the K distinct bone ids of splatBoneIndices
\* the group ids 0..K-1 in order of first appearance, puts every splat
\* index into exactly one group, the group of its bone, in ascending index
\* order, and returns the same grouping when run again over the same array.
C16_GroupsByFirstAppearance ==
  /\ [](bpc = "loaded" =>
         LET sb    == archive.splatBoneIndices
             bones == {sb[k] : k \in DOMAIN sb}
             K     == Cardinality(bones)
         IN /\ DOMAIN boneSceneMap = bones
            /\ {boneSceneMap[b] : b \in bones} = 0..(K - 1)
            /\ \A b1, b2 \in bones :
                 FirstPosition(sb, b1) < FirstPosition(sb, b2) => boneSceneMap[b1] < boneSceneMap[b2]
            /\ Len(sceneSplatIndices) = K
            /\ \A i \in 0..(Len(sb) - 1) :
                 /\ \E k \in DOMAIN sceneSplatIndices[boneSceneMap[sb[i + 1]] + 1] :
                      sceneSplatIndices[boneSceneMap[sb[i + 1]] + 1][k] = i
                 /\ Cardinality({<<sc, k>> \in (1..K) \X (1..Len(sb)) :
                                   k \in DOMAIN sceneSplatIndices[sc]
                                   /\ sceneSplatIndices[sc][k] = i}) = 1
            /\ \A sc \in 1..K : \A k \in 1..(Len(sceneSplatIndices[sc]) - 1) :
                 sceneSplatIndices[sc][k] < sceneSplatIndices[sc][k + 1])
  /\ [][(bpc = "loaded" /\ bpc' = "loaded") =>
          (sceneSplatIndices' = sceneSplatIndices /\ boneSceneMap' = boneSceneMap)]_vars

\* An archive with bones 5, 3, 5 loaded twice: groups <<0, 2>> and <<1>>.
C16_Witness ==
  /\ bpc = "loaded" /\ reloaded /\ cycles = 1
  /\ archive.splatBoneIndices = <<Num(5), Num(3), Num(5)>>
  /\ sceneSplatIndices = <<(<<0, 2>>), (<<1>>)>>

\* C17: when preprocess is called with nocheck = true and an allowed stage,
\* no ground check, A-pose check or final check is executed and the pose
\* detector, which is null, is never used.
C17_NoCheckNoDetector ==
  (nocheck /\ stage \in ValidStages) => (checksRun = {} /\ ~detectorUsed)

\* C18 (as claimed): calculateHeights returns a result only if, at the
\* radius it returns, the in-band point count is at least 10,000, ceiling
\* minus floor is greater than 0.3 m, and the share of in-band points in the
\* outer 2 cm annulus is at most 0.025%.
C18_ReturnsWithinThresholds ==
  \A k \in DOMAIN accepted :
    /\ accepted[k].count >= 10000
    /\ accepted[k].hdCm > 30
    /\ accepted[k].outer * 4000 <= accepted[k].count

\* C18 (amended): calculateHeights returns a result only if the in-band
\* point count is at least 10,000, ceiling minus floor is greater than
\* 0.3 m, and the outer 2 cm annulus holds at most 10 in-band points or at
\* most 0.025% of them.
C18_ReturnsWithinCodeThresholds ==
  \A k \in DOMAIN accepted :
    /\ accepted[k].count >= 10000
    /\ accepted[k].hdCm > 30
    /\ (accepted[k].outer <= 10 \/ accepted[k].outer * 4000 <= accepted[k].count)

\* A run of phase 3 returned with more than 10 points in the annulus,
\* exactly 0.025% of the in-band points, after an enlarged radius.
C18_Witness ==
  /\ cpc = "head" /\ accepted # <<>>
  /\ accepted[1].phase = 3 /\ accepted[1].outer = 11 /\ accepted[1].count = 44000
  /\ FLess(D0_3, accepted[1].distXZ)

\* C19: across the whole calibration session of one cleanSplats call (the
\* three calculateHeights phases and all their re-runs) the search radii
\* used form a non-decreasing sequence.
C19_SessionNonDecreasing ==
  \A i \in 1..(Len(session) - 1) : FLeq(session[i], session[i + 1])

\* C20 (as claimed): for every splat bound on a mesh of more than 3
\* vertices the stored relativeOffset is the splat centre in mesh-local
\* space minus the un-posed position of its bound vertex (no skin transform
\* applied).
C20_OffsetFromUnposedVertex ==
  (bpc = "bound" /\ ~IsCliMesh(vertexCount)) =>
    \A i \in 1..splatCount :
      /\ splatRelativePoses[3 * i - 2] = Num(centers[i] - RestPosition(splatVertexIndices[i].v))
      /\ splatRelativePoses[3 * i - 1] = Num(0)
      /\ splatRelativePoses[3 * i] = Num(0)

\* C20 (amended): for every splat bound on a mesh of more than 3 vertices
\* the stored relativeOffset is the splat centre in mesh-local space minus
\* the position of its bound vertex with the skin transform of the
\* measurement pose applied.
C20_OffsetFromPosedVertex ==
  (bpc = "bound" /\ ~IsCliMesh(vertexCount)) =>
    /\ Len(splatRelativePoses) = 3 * splatCount
    /\ \A i \in 1..splatCount :
         /\ splatVertexIndices[i].t = "number"
         /\ splatRelativePoses[3 * i - 2]
              = Num(centers[i] - PosedPosition(splatVertexIndices[i].v, skinShift))
         /\ splatRelativePoses[3 * i - 1] = Num(0)
         /\ splatRelativePoses[3 * i] = Num(0)

\* Three splats bound on a mesh whose measurement pose displaces the
\* vertices, one of them off its vertex and bound to a vertex other than 0.
C20_Witness ==
  /\ bpc = "bound" /\ ~IsCliMesh(vertexCount) /\ skinShift = 1 /\ splatCount = 3
  /\ \E i \in 1..splatCount :
       /\ splatVertexIndices[i].v > 0
       /\ splatRelativePoses[3 * i - 2] # Num(0)

-----------------------------------------------------------------------------
(***************************************************************************)
(* Properties of the partition of cleanSplats (SpecClean)                  *)
(***************************************************************************)

\* A cloud of up to MaxCloud splats after the phases 1 and 2 of the
\* calibration: phase 3 accepted a height range of more than 0.3 m.
InitClean ==
  /\ clpc = "phase2"
  /\ \E n \in 0..MaxCloud : cloud \in [1..n -> [x : CloudXs, h : CloudHs]]
  /\ centroidX \in {0, 1}
  /\ cleanRadius = 6
  /\ heights2 \in {[min |-> 0, max |-> 18], [min |-> -1, max |-> 20]}
  /\ heights3 \in {[min |-> 0, max |-> 20]}
  /\ keepCells \in SUBSET {0, 4}
  /\ filteredVertices6 = <<>> /\ filteredVertices7 = <<>> /\ filteredVertices3 = <<>>
  /\ filteredVertices4 = <<>> /\ filteredVertices5 = <<>>
  /\ PreIdle /\ CalIdle /\ BindIdle /\ StagesIdle /\ DeformIdle /\ ShoesIdle /\ FloorIdle /\ PlyIdle /\ LifeIdle /\ CliIdle

NextClean ==
  \/ SplitColumn
  \/ DetectShoesAndConcat

SpecClean == InitClean /\ [][NextClean]_vars

\* Number of entries of the sequence s equal to i.
Occurrences(s, i) == Cardinality({k \in DOMAIN s : s[k] = i})

\* C21: when cleanSplats succeeds every input splat is in exactly one of
\* the foreground and background clouds, once: none is dropped, none is
\* duplicated, and foreground count + background count = input count.
C21_Partition ==
  clpc = "written" =>
    /\ \A i \in 0..(Len(cloud) - 1) :
         Occurrences(filteredVertices3, i) + Occurrences(filteredVertices5, i) = 1
    /\ Len(filteredVertices3) + Len(filteredVertices5) = Len(cloud)

-----------------------------------------------------------------------------
(***************************************************************************)
(* Properties of the grid marking of detectShoes (SpecShoes)               *)
(***************************************************************************)

\* The splats near the floor binned into the grid: crowded tall cells and
\* empty cells, and at most one cell that is crowded but flat, or tall but
\* sparse.
InitShoes ==
  /\ shpc = "binned"
  /\ \E base \in [Cells -> {"empty", "tall"}], odd \in Cells \cup {-1},
        oddKind \in {"flat", "sparse"} :
       cellKind = [k \in Cells |-> IF k = odd THEN oddKind ELSE base[k]]
  /\ keep0 = <<>> /\ keep = <<>>
  /\ PreIdle /\ CalIdle /\ BindIdle /\ StagesIdle /\ DeformIdle /\ CleanIdle /\ FloorIdle /\ PlyIdle /\ LifeIdle /\ CliIdle

NextShoes == MarkAndDemote

SpecShoes == InitShoes /\ [][NextShoes]_vars

\* C22: a cell is marked keep iff its count is above the mean cell count
\* and its mean height is more than 1 cm; the demotion pass demotes exactly
\* the keep cells with at least 5 of their 8 neighbours not kept (outside
\* the grid counts as not kept), each cell judged against the marking as it
\* was before the pass.
C22_DemotionAgainstOriginalMarking ==
  shpc = "marked" =>
    /\ \A k \in Cells :
         keep0[k] <=> (AboveMeanCount(CellCount(cellKind[k]), cellKind)
                       /\ CellMean(cellKind[k]) > 1)
    /\ \A k \in Cells :
         keep[k] <=> (keep0[k] /\ NotKeptNeighbours(k, keep0) < 5)

-----------------------------------------------------------------------------
(***************************************************************************)
(* Properties of the floor search and the centroids (SpecFloor)            *)
(***************************************************************************)

\* A cloud binned by height, inside and outside the search column, at the
\* start of phase 1 (before the initial centroid) or of phase 3 (after
\* calculateCentroidFeet), with or without hints.kneeHeight.
InitFloor ==
  /\ fphase \in {1, 3}
  /\ fpc = IF fphase = 1 THEN "loaded" ELSE "heights"
  /\ columnBins \in [Bins -> 0..2]
  /\ outsideBins \in [Bins -> 0..1]
  /\ outsideWithin \in IF fphase = 3 THEN BOOLEAN ELSE {FALSE}
  /\ knee \in {[given |-> FALSE, v |-> 0]}
                \cup [given : {TRUE}, v : (-1)..(2 * MaxBin + 3)]
  /\ floorY = 0 /\ divisors = {}
  /\ PreIdle /\ CalIdle /\ BindIdle /\ StagesIdle /\ DeformIdle /\ CleanIdle /\ ShoesIdle /\ PlyIdle /\ LifeIdle /\ CliIdle

NextFloor ==
  \/ InitialCentroid
  \/ HeightsRun
  \/ CentroidOfBand

SpecFloor == InitFloor /\ [][NextFloor]_vars

C25_EmptyRegionThrows ==
  /\ (fpc \notin {"loaded", "heights"} /\ Total(columnBins) = 0)
       => fpc \in {"thrownEmpty", "thrownNoFloor", "enlarged"}
  /\ 0 \notin divisors

-----------------------------------------------------------------------------
(***************************************************************************)
(* Further properties of the binding (SpecBind)                            *)
(***************************************************************************)

\* C24: with zero capsules assignSplatsToBones followed by
\* assignSplatsToPoints completes without throwing for a mesh of any vertex
\* count, leaving every splat on bone 0 with a defined vertex index and
\* offset.
C24_ZeroCapsulesBinds ==
  (Len(capsules) = 0 /\ cycles = 0 /\ bpc \notin {"unbound", "bonesAssigned"}) =>
    /\ bpc # "thrown"
    /\ Len(splatVertexIndices) = splatCount
    /\ Len(splatRelativePoses) = 3 * splatCount
    /\ \A i \in 1..splatCount :
         /\ splatBoneIndices[i] = Num(0)
         /\ splatVertexIndices[i].t = "number"
         /\ \A c \in 0..2 : splatRelativePoses[3 * i - c].t = "number"

\* C28: after assignSplatsToPoints every entry of splatVertexIndices is a
\* defined integer in [0, vertexCount) and every relative offset component
\* is a defined number, also for a splat whose bone received no mesh vertex
\* and in fast mode.
C28_DefinedVertexAndOffset ==
  (Len(capsules) > 0 /\ cycles = 0 /\ bpc \in {"bound", "thrown"}) =>
    /\ Len(splatVertexIndices) = splatCount
    /\ Len(splatRelativePoses) = 3 * splatCount
    /\ \A i \in 1..splatCount :
         /\ splatVertexIndices[i].t = "number"
         /\ splatVertexIndices[i].v \in 0..(vertexCount - 1)
         /\ \A c \in 0..2 : splatRelativePoses[3 * i - c].t = "number"

\* C27: the binding arrays and the point-cloud records stay index-aligned
\* across load, save, load: when a GVRM obtained from GVRM.load is saved with
\* the point cloud its archive was built from and the new archive is loaded,
\* every point-cloud record has the same bone, vertex and offset as after
\* the first load.
C27_AlignedAcrossCycles ==
  [][(bpc = "saved" /\ cycles = 1 /\ bpc' = "loaded") =>
       /\ splatCount' = splatCount
       /\ \A j2 \in 1..splatCount' :
            \E j1 \in 1..splatCount :
              /\ gsRecords[j1] = gsRecords'[j2]
              /\ splatBoneIndices'[j2] = JsonRoundTrip(splatBoneIndices[j1])
              /\ splatVertexIndices'[j2] = JsonRoundTrip(splatVertexIndices[j1])
              /\ \A c \in 0..2 :
                   splatRelativePoses'[3 * j2 - c] = JsonRoundTrip(splatRelativePoses[3 * j1 - c])]_vars

\* One parser instance and a binary little-endian file of up to
\* MaxPlyVertices vertices with up to MaxProps properties.
InitPly ==
  /\ plypc = "ready"
  /\ \E n \in 0..MaxProps :
       \E types \in [1..n -> PropertyTypes] :
         fileProperties = [k \in 1..n |-> [type |-> types[k], name |-> k]]
  /\ fileVertexCount \in 0..MaxPlyVertices
  /\ \E seed \in {0, 255} :
       fileBody = [k \in 1..(fileVertexCount * VertexSize(fileProperties)) |->
                     (seed + k) % 256]
  /\ properties = <<>> /\ parsed = <<>> /\ parsers = 1
  /\ PreIdle /\ CalIdle /\ BindIdle /\ StagesIdle /\ DeformIdle /\ CleanIdle /\ ShoesIdle /\ FloorIdle /\ LifeIdle /\ CliIdle

NextPly ==
  \/ ParsePLY
  \/ NewParser

SpecPly == InitPly /\ [][NextPly]_vars

\* C29: parsePLY called twice on the same PLYParser (or PLYLoader) instance
\* with the same file returns the same property list, vertexSize and
\* vertices both times.
C29_SecondParseSame ==
  Len(parsed) >= 2 => parsed[2] = parsed[1]

\* A GVRM object made by `new GVRM()` (gvrm.js 14-21), or returned ready by
\* the static GVRM.load (274).
InitLife ==
  /\ lpc = "live"
  /\ \/ character = 0 /\ gvrmGs = 0 /\ isReady = FALSE /\ loaded = 0
     \/ character = 1 /\ gvrmGs = 1 /\ isReady = TRUE /\ loaded = 1
  /\ loading = 0 /\ removing = [pos \in RemovePositions |-> 0]
  /\ left = {} /\ calls = 0 /\ frames = 0 /\ updateThrew = FALSE
  /\ PreIdle /\ CalIdle /\ BindIdle /\ StagesIdle /\ DeformIdle /\ CleanIdle /\ ShoesIdle /\ FloorIdle /\ PlyIdle /\ CliIdle

NextLife ==
  \/ LoadStart
  \/ LoadFinish
  \/ RemoveStart
  \/ RemoveAfterLeave
  \/ RemoveAfterDispose
  \/ Update

SpecLife == InitLife /\ [][NextLife]_vars

\* C26: under every interleaving of load() and remove() with update() calls
\* on one GVRM object, isReady = true implies that character and gs are both
\* non-null, and update() never dereferences a removed character or cloud.
C26_ReadyImpliesLoaded ==
  /\ isReady => (character # 0 /\ gvrmGs # 0)
  /\ ~updateThrew

\* node gvrm-cli.js <input.ply> <output.gvrm> [--nocheck] [--nobg] [--cpu],
\* after parseArgs (mock-texture-loader.js 453-487).
InitCli ==
  /\ cliPc = "start"
  /\ outputGvrm \in [dir : Directories, base : 1..MaxNames, ext : Extensions]
  /\ cliOptions \in [nocheck : BOOLEAN, nobg : BOOLEAN, cpu : BOOLEAN]
  /\ cliStage = "null" /\ fileName = <<>> /\ written = <<>> /\ saveRuns = 0
  /\ PreIdle /\ CalIdle /\ BindIdle /\ StagesIdle /\ DeformIdle /\ CleanIdle /\ ShoesIdle /\ FloorIdle /\ PlyIdle /\ LifeIdle

NextCli ==
  \/ CliPreprocess
  \/ Preprocess2Save
  \/ CliSave

SpecCli == InitCli /\ [][NextCli]_vars

\* C30: a successful run of the command-line tool writes the archive exactly
\* once, to the requested output path, and writes no other file: GVRM.save
\* is not executed a second time under another file name.
C30_WritesOnce ==
  cliPc = "success" => (saveRuns = 1 /\ written = <<outputGvrm>>)

====
